---- MODULE Spec2Model ----
(***************************************************************************)
(* Model of the fireshot annotation editor (crates/gui/src/app.rs):        *)
(* the EditorApp state, its per-frame update() and the handlers it calls.  *)
(*                                                                         *)
(* One step of the model is one call of EditorApp::update, i.e. one UI     *)
(* frame, with the inputs that frame delivers.  The handlers are written   *)
(* as operators from an editor record to an editor record, named after the *)
(* Rust functions they model; update() composes them in source order.      *)
(*                                                                         *)
(* Conventions                                                             *)
(*   Option<T>   : <<>> is None, <<v>> is Some(v).                         *)
(*   Pos2 / Vec2 : [x |-> Int, y |-> Int], image pixels (scale = 1).       *)
(*   Rect        : [min |-> Pos2, max |-> Pos2].                           *)
(*   Vec<Rect> of the palette : its length (the rectangles' geometry is    *)
(*     not modelled; the pointer input says which UI region it aims at).   *)
(***************************************************************************)
EXTENDS Integers, Sequences, FiniteSets, TLC

VARIABLES
    tool,               \* EditorApp.tool
    last_draw_tool,     \* EditorApp.last_draw_tool
    color,              \* EditorApp.color
    size,               \* EditorApp.size
    shapes,             \* EditorApp.shapes (committed list, z-order)
    active_shape,       \* EditorApp.active_shape : Option<Shape>
    redo_stack,         \* EditorApp.redo_stack
    selection,          \* EditorApp.selection : Option<SelectionRect>
    selection_drag,     \* EditorApp.selection_drag : Option<SelectionDrag>
    status,             \* EditorApp.status : Option<String>
    tool_button_rects,  \* EditorApp.tool_button_rects (length of the Vec)
    tool_controls_rect, \* EditorApp.tool_controls_rect : Option (presence)
    text_input,         \* EditorApp.text_input : Option<TextInput>
    text_editor_rect,   \* EditorApp.text_editor_rect : Option (presence)
    shapes_version,     \* EditorApp.shapes_version
    effect_previews,    \* EditorApp.effect_previews
    file_dialog,        \* state of EditorApp.file_dialog (DialogState)
    file_dialog_open,   \* EditorApp.file_dialog_open
    closed,             \* a ViewportCommand::Close has been sent
    exported,           \* observer: the image render_image returned for the
                        \* last copy or save, if any
    primary_down,       \* the pointer's primary button is held (event source)
    shown,              \* observer: the effects painted by the last frame, each
                        \* with its texture and the image it was painted over
    trail,              \* observer: the last effective history operations
    noop,               \* observer: history calls of the last frame that changed nothing
    fx,                 \* the last call of a pixel effect: its arguments and result
    proc,               \* the run of main(): its position, command and effects
    daemon              \* the run of run_daemon(): the loop, the shutdown
                        \* channel, the quit calls and the tray's commands

vars == <<tool, last_draw_tool, color, size, shapes, active_shape, redo_stack,
          selection, selection_drag, status, tool_button_rects,
          tool_controls_rect, text_input, text_editor_rect, shapes_version,
          effect_previews, file_dialog, file_dialog_open, closed, exported,
          primary_down, shown, trail, noop, fx, proc, daemon>>

----------------------------------------------------------------------------
(* Bounds of the model.                                                    *)

\* Pointer positions are multiples of Step; the captured image is
\* ImageCells*Step pixels wide and high.
Step == 7
ImageCells == 2
\* A stroke is extended while it has fewer points.
MaxStroke == 1
\* Frames are offered while the preview cache holds at most this many slots.
MaxPreviews == 2
\* The observer keeps this many history operations.
TrailLen == 3
\* Session (Spec): history operations are offered while shapes_version is
\* below DrawVersions, a press with a drawing tool while fewer than
\* DrawShapes shapes are committed.
DrawVersions == 3
DrawShapes == 2
\* History (SpecHistory): the same two limits.
HistVersions == 5
HistShapes == 4
\* Main (SpecMain): the delay option runs from 0 to MaxDelay milliseconds.
MaxDelay == 2
\* Pixels (SpecPixels): the buffer is PixelCells pixels wide and high; block
\* sizes and radii run from 0 to MaxParam, besides the largest ones.
PixelCells == 3
MaxParam == 3
\* Effects (SpecEffects): the same two limits.
EffectVersions == 3
EffectShapes == 2

ImageWidth == ImageCells * Step
ImageHeight == ImageCells * Step

----------------------------------------------------------------------------
(* Values.                                                                 *)

None == <<>>
Some(v) == <<v>>
IsSome(o) == o /= <<>>
Unwrap(o) == o[1]

Min(a, b) == IF a <= b THEN a ELSE b
Max(a, b) == IF a >= b THEN a ELSE b
\* The value as it comes.
clamp_unbounded(v, lo, hi) == v

\* Bounded from below only.
clamp_from_below(v, lo, hi) == Max(lo, v)

Clamp(v, lo, hi) == Max(lo, Min(v, hi))

Tool == {"Select", "Pencil", "Line", "Arrow", "Rect", "Circle", "Marker",
         "MarkerLine", "CircleCount", "Text", "Pixelate", "Blur"}

pos2(x, y) == [x |-> x, y |-> y]
Sub(a, b) == [x |-> a.x - b.x, y |-> a.y - b.y]
Add(a, b) == [x |-> a.x + b.x, y |-> a.y + b.y]

from_min_max(mn, mx) == [min |-> mn, max |-> mx]
from_two_pos(a, b) ==
    [min |-> pos2(Min(a.x, b.x), Min(a.y, b.y)),
     max |-> pos2(Max(a.x, b.x), Max(a.y, b.y))]
from_min_size(mn, sz) == [min |-> mn, max |-> Add(mn, sz)]
rect_size(r) == Sub(r.max, r.min)
width(r) == r.max.x - r.min.x
height(r) == r.max.y - r.min.y
\* A containment test that accepts every point, for comparison.
contains_anywhere(r, p) == TRUE

contains(r, p) ==
    /\ r.min.x <= p.x /\ p.x <= r.max.x
    /\ r.min.y <= p.y /\ p.y <= r.max.y
intersect(r, o) ==
    [min |-> pos2(Max(r.min.x, o.min.x), Max(r.min.y, o.min.y)),
     max |-> pos2(Min(r.max.x, o.max.x), Min(r.max.y, o.max.y))]

image_size == pos2(ImageWidth, ImageHeight)
image_rect == from_min_size(pos2(0, 0), image_size)

\* The rectangle as it is, for comparison.
keep_rect(rect) == rect

normalize_rect(rect) ==
    from_min_max(pos2(Min(rect.min.x, rect.max.x), Min(rect.min.y, rect.max.y)),
                 pos2(Max(rect.min.x, rect.max.x), Max(rect.min.y, rect.max.y)))

HandleRadius == 6

\* The first of the four corners within `radius` of pos, in the source's order.
hit_corner(rect, pos, radius) ==
    LET corners == << <<rect.min, "TopLeft">>,
                      <<pos2(rect.max.x, rect.min.y), "TopRight">>,
                      <<pos2(rect.min.x, rect.max.y), "BottomLeft">>,
                      <<rect.max, "BottomRight">> >>
        hit(i) == LET dx == pos.x - corners[i][1].x
                      dy == pos.y - corners[i][1].y
                  IN dx * dx + dy * dy <= radius * radius
        hits == {i \in 1..4 : hit(i)}
    IN IF hits = {} THEN None
       ELSE Some(corners[CHOOSE i \in hits : \A j \in hits : i <= j][2])

with_alpha(c, alpha) == [c EXCEPT !.a = alpha]

----------------------------------------------------------------------------
(* Shape model and history (app.rs 895-935).                               *)

IsEffect(shape) == shape.kind = "Effect"
IsCircleCount(shape) == shape.kind = "CircleCount"

LastN(s, n) == IF Len(s) <= n THEN s ELSE SubSeq(s, Len(s) - n + 1, Len(s))
Front(s) == SubSeq(s, 1, Len(s) - 1)
Last(s) == s[Len(s)]

\* Observer: records an effective history operation and the list it acted on.
Log(e, op, shape) ==
    [e EXCEPT !.trail = LastN(Append(@, [op |-> op, shape |-> shape,
                                         before |-> e.shapes]), TrailLen)]
\* Observer: records a history call that changed nothing.
LogNoop(e, op) == [e EXCEPT !.noop = @ \cup {op}]

\* A push that leaves the redo stack alone, for comparison.
push_shape_keeping_redo(e, shape) ==
    [Log(e, "push", Some(shape)) EXCEPT
        !.shapes = Append(@, shape),
        !.shapes_version = @ + 1,
        !.effect_previews = <<>>]

push_shape(e, shape) ==
    [Log(e, "push", Some(shape)) EXCEPT
        !.shapes = Append(@, shape),
        !.shapes_version = @ + 1,
        !.effect_previews = <<>>,
        !.redo_stack = <<>>]

\* An undo that takes the oldest shape instead of the newest, for comparison.
pop_shape_oldest(e) ==
    IF e.shapes /= <<>>
    THEN [Log(e, "pop", Some(Head(e.shapes))) EXCEPT
            !.shapes = Tail(@),
            !.redo_stack = Append(@, Head(e.shapes)),
            !.shapes_version = @ + 1,
            !.effect_previews = <<>>]
    ELSE LogNoop(e, "pop")

pop_shape(e) ==
    IF e.shapes /= <<>>
    THEN [Log(e, "pop", Some(Last(e.shapes))) EXCEPT
            !.shapes = Front(@),
            !.redo_stack = Append(@, Last(e.shapes)),
            !.shapes_version = @ + 1,
            !.effect_previews = <<>>]
    ELSE LogNoop(e, "pop")

clear_shapes(e) ==
    IF e.shapes /= <<>>
    THEN [Log(e, "clear", None) EXCEPT
            !.shapes = <<>>,
            !.shapes_version = @ + 1,
            !.effect_previews = <<>>,
            !.redo_stack = <<>>]
    ELSE LogNoop(e, "clear")

\* A redo that takes the shape undone first instead of the one undone last,
\* for comparison.
redo_shape_oldest(e) ==
    IF e.redo_stack /= <<>>
    THEN [Log(e, "redo", Some(Head(e.redo_stack))) EXCEPT
            !.shapes = Append(@, Head(e.redo_stack)),
            !.redo_stack = Tail(@),
            !.shapes_version = @ + 1,
            !.effect_previews = <<>>]
    ELSE LogNoop(e, "redo")

\* A redo that leaves the version counter as it is, for comparison.
redo_shape_same_version(e) ==
    IF e.redo_stack /= <<>>
    THEN [Log(e, "redo", Some(Last(e.redo_stack))) EXCEPT
            !.shapes = Append(@, Last(e.redo_stack)),
            !.redo_stack = Front(@),
            !.effect_previews = <<>>]
    ELSE LogNoop(e, "redo")

redo_shape(e) ==
    IF e.redo_stack /= <<>>
    THEN [Log(e, "redo", Some(Last(e.redo_stack))) EXCEPT
            !.shapes = Append(@, Last(e.redo_stack)),
            !.redo_stack = Front(@),
            !.shapes_version = @ + 1,
            !.effect_previews = <<>>]
    ELSE LogNoop(e, "redo")

RECURSIVE MaxCount(_)
MaxCount(s) ==
    IF s = <<>> THEN 0
    ELSE LET rest == MaxCount(Front(s))
         IN IF IsCircleCount(Last(s)) THEN Max(rest, Last(s).count) ELSE rest

\* Numbering by position in the list, for comparison.
next_by_position(e) == Len(e.shapes) + 1

next_circle_count(e) == MaxCount(e.shapes) + 1

----------------------------------------------------------------------------
(* Effect previews (app.rs 937-1037, image_ops.rs 4-15).                   *)

RECURSIVE SelectShapes(_, _)
SelectShapes(s, keep_effects) ==
    IF s = <<>> THEN <<>>
    ELSE LET rest == SelectShapes(Front(s), keep_effects)
         IN IF IsEffect(Last(s)) = keep_effects THEN Append(rest, Last(s)) ELSE rest

\* The image the previews are cut from: the base bitmap with every committed
\* shape that is not an effect drawn on it, in list order.  The bitmap is
\* fixed, so the image is represented by the list of shapes drawn.
render_full_image_without_effects(e) == SelectShapes(e.shapes, FALSE)

rect_to_u32(rect) ==
    LET min_x == Clamp(rect.min.x, 0, ImageWidth)
        min_y == Clamp(rect.min.y, 0, ImageHeight)
        max_x == Clamp(rect.max.x, 0, ImageWidth)
        max_y == Clamp(rect.max.y, 0, ImageHeight)
    IN IF max_x <= min_x \/ max_y <= min_y THEN None
       ELSE Some(<<min_x, min_y, max_x, max_y>>)

PixelateMinBlock == 4
BlurMinRadius == 2
BlurMaxRadius == 12

size_param(effect) ==
    IF effect.effect = "Pixelate" THEN Max(effect.size, PixelateMinBlock)
    ELSE Max(effect.size, BlurMinRadius)

\* The pixels of a preview: the crop of `base` to rect_key with the effect
\* applied to all of it.
Texture(base, rect_key, effect) ==
    [base |-> base, rect |-> rect_key, kind |-> effect.effect,
     strength |-> IF effect.effect = "Pixelate" THEN size_param(effect)
                  ELSE Min(size_param(effect), BlurMaxRadius)]

\* A slot test that does not look at the rectangle, for comparison.
preview_matches_any_rect(preview, rect_key, effect, version) ==
    /\ preview.kind = effect.effect
    /\ preview.size = size_param(effect)
    /\ preview.shapes_version = version

\* The slot test of ensure_effect_preview (app.rs 996-1004).
preview_matches(preview, rect_key, effect, version) ==
    /\ preview.rect = rect_key
    /\ preview.kind = effect.effect
    /\ preview.size = size_param(effect)
    /\ preview.shapes_version = version

\* Returns <<editor, Option<texture>, the slot the texture was taken from, if
\* it was not computed by this call>>.  A slot's `name` is the number in the
\* name its texture was loaded under, "effect_preview_{idx}"; writing to an
\* existing slot sets the texture's pixels and keeps its name.
ensure_effect_preview(e, base, effect, idx) ==
    LET rect == normalize_rect(from_two_pos(effect.start, effect.end))
        key == rect_to_u32(rect)
    IN IF key = None THEN <<e, None, None>>
       ELSE IF /\ idx + 1 <= Len(e.effect_previews)
               /\ preview_matches(e.effect_previews[idx + 1], Unwrap(key),
                                  effect, e.shapes_version)
       THEN <<e, Some(e.effect_previews[idx + 1].texture),
              Some(e.effect_previews[idx + 1])>>
       ELSE LET tex == Texture(base, Unwrap(key), effect)
                slot == [rect |-> Unwrap(key), kind |-> effect.effect,
                         size |-> size_param(effect),
                         shapes_version |-> e.shapes_version,
                         texture |-> tex]
            IN IF idx + 1 <= Len(e.effect_previews)
               THEN <<[e EXCEPT !.effect_previews[idx + 1] =
                                    slot @@ [name |-> @.name]],
                      Some(tex), None>>
               ELSE <<[e EXCEPT !.effect_previews =
                                    Append(@, slot @@ [name |-> idx])],
                      Some(tex), None>>

\* draw_overlay / draw_shape_preview (app.rs 380-452, 871-891): every
\* committed shape, then the active one, is painted; an effect shape is
\* painted with the texture ensure_effect_preview returns for its index.
RECURSIVE DrawEffects(_, _, _, _)
DrawEffects(e, base, todo, idx) ==
    IF todo = <<>> THEN e
    ELSE LET r == ensure_effect_preview(e, base, todo[1], idx)
             e1 == [r[1] EXCEPT !.shown = Append(@, [effect |-> todo[1],
                                                    texture |-> r[2],
                                                    cached |-> r[3],
                                                    base |-> base,
                                                    version |-> e.shapes_version])]
         IN DrawEffects(e1, base, Tail(todo), idx + 1)

draw_overlay(e) ==
    LET drawn == IF IsSome(e.active_shape)
                 THEN Append(e.shapes, Unwrap(e.active_shape)) ELSE e.shapes
    IN DrawEffects([e EXCEPT !.shown = <<>>],
                   render_full_image_without_effects(e),
                   SelectShapes(drawn, TRUE), 0)

----------------------------------------------------------------------------
(* Pointer input (app.rs 87-378).                                          *)
(* A pointer input is a record                                             *)
(*   where    : "gone" (hover_pos() is None), "image" (inside the image    *)
(*              widget's rectangle) or "outside" (outside it);             *)
(*   over     : the UI region the position lies in, if that region is      *)
(*              currently registered: "buttons", "controls", "editor",     *)
(*              or "none";                                                 *)
(*   pos      : the position relative to the widget, times the scale;      *)
(*   pressed, down, released : primary_pressed(), primary_down(),          *)
(*              primary_released() of this frame.                          *)

\* A hit test that knows the palette only, for comparison.
is_over_ui_palette_only(e, ptr) ==
    ptr.over = "buttons" /\ e.tool_button_rects > 0

is_over_ui(e, ptr) ==
    \/ ptr.over = "buttons" /\ e.tool_button_rects > 0
    \/ ptr.over = "controls" /\ IsSome(e.tool_controls_rect)
    \/ ptr.over = "editor" /\ IsSome(e.text_editor_rect)

handle_selection_input(e, ptr, img_pos) ==
    IF ptr.pressed THEN
        IF IsSome(e.selection) THEN
            LET sel == Unwrap(e.selection)
                corner == hit_corner(sel.rect, img_pos, HandleRadius)
            IN IF IsSome(corner)
               THEN [e EXCEPT !.selection_drag =
                        Some([drag |-> "Resizing", corner |-> Unwrap(corner)])]
               ELSE IF contains(sel.rect, img_pos)
               THEN [e EXCEPT !.selection_drag =
                        Some([drag |-> "Moving", offset |-> Sub(img_pos, sel.rect.min)])]
               ELSE [e EXCEPT
                        !.selection_drag = Some([drag |-> "Creating", start |-> img_pos]),
                        !.selection = Some([rect |-> from_two_pos(img_pos, img_pos)])]
        ELSE [e EXCEPT
                !.selection_drag = Some([drag |-> "Creating", start |-> img_pos]),
                !.selection = Some([rect |-> from_two_pos(img_pos, img_pos)])]
    ELSE IF ptr.down THEN
        IF IsSome(e.selection_drag) THEN
            LET drag == Unwrap(e.selection_drag)
            IN CASE drag.drag = "Creating" ->
                    [e EXCEPT !.selection =
                        Some([rect |-> intersect(from_two_pos(drag.start, img_pos),
                                                 image_rect)])]
                 [] drag.drag = "Moving" ->
                    IF IsSome(e.selection) THEN
                        LET sel == Unwrap(e.selection)
                            sz == rect_size(sel.rect)
                            raw == Sub(img_pos, drag.offset)
                            max_x == Max(ImageWidth - sz.x, 0)
                            max_y == Max(ImageHeight - sz.y, 0)
                            mn == pos2(Clamp(raw.x, 0, max_x), Clamp(raw.y, 0, max_y))
                        IN [e EXCEPT !.selection = Some([rect |-> from_min_size(mn, sz)])]
                    ELSE e
                 [] drag.drag = "Resizing" ->
                    IF IsSome(e.selection) THEN
                        LET r == Unwrap(e.selection).rect
                            moved ==
                                CASE drag.corner = "TopLeft" ->
                                        [r EXCEPT !.min = img_pos]
                                  [] drag.corner = "TopRight" ->
                                        [r EXCEPT !.min.y = img_pos.y, !.max.x = img_pos.x]
                                  [] drag.corner = "BottomLeft" ->
                                        [r EXCEPT !.min.x = img_pos.x, !.max.y = img_pos.y]
                                  [] drag.corner = "BottomRight" ->
                                        [r EXCEPT !.max = img_pos]
                        IN [e EXCEPT !.selection = Some([rect |->
                                normalize_rect(intersect(normalize_rect(moved),
                                                         image_rect))])]
                    ELSE e
        ELSE e
    ELSE IF ptr.released THEN
        LET e1 == [e EXCEPT !.selection_drag = None]
        IN IF IsSome(e1.selection)
              /\ (width(Unwrap(e1.selection).rect) < 1
                  \/ height(Unwrap(e1.selection).rect) < 1)
           THEN [e1 EXCEPT !.selection = None]
           ELSE e1
    ELSE e

MarkerAlpha == 120
MarkerMinSize == 6

\* The shape a press with `t` starts at img_pos (app.rs 132-200); Select and
\* Text start none.
new_shape(e, t, img_pos) ==
    CASE t = "Pencil" ->
            [kind |-> "Stroke", points |-> <<img_pos>>, color |-> e.color,
             size |-> e.size]
      [] t = "Marker" ->
            [kind |-> "Stroke", points |-> <<img_pos>>,
             color |-> with_alpha(e.color, MarkerAlpha),
             size |-> Max(e.size, MarkerMinSize)]
      [] t = "MarkerLine" ->
            [kind |-> "Line", start |-> img_pos, end |-> img_pos,
             color |-> with_alpha(e.color, MarkerAlpha),
             size |-> Max(e.size, MarkerMinSize)]
      [] t = "CircleCount" ->
            [kind |-> "CircleCount", center |-> img_pos, pointer |-> img_pos,
             color |-> e.color, size |-> e.size, count |-> next_circle_count(e)]
      [] t \in {"Line", "Arrow", "Rect", "Circle"} ->
            [kind |-> t, start |-> img_pos, end |-> img_pos, color |-> e.color,
             size |-> e.size]
      [] t \in {"Pixelate", "Blur"} ->
            [kind |-> "Effect", start |-> img_pos, end |-> img_pos,
             size |-> e.size, effect |-> t]

\* The active shape after a hold at img_pos (app.rs 201-227).
extend_shape(active, img_pos) ==
    CASE active.kind = "Stroke" -> [active EXCEPT !.points = Append(@, img_pos)]
      [] active.kind \in {"Line", "Arrow", "Rect", "Circle", "Effect"} ->
            [active EXCEPT !.end = img_pos]
      [] active.kind = "CircleCount" -> [active EXCEPT !.pointer = img_pos]
      [] active.kind = "Text" -> active

\* A commit that takes the place of the newest committed shape, for
\* comparison.
take_and_replace_last(e) ==
    IF IsSome(e.active_shape)
    THEN push_shape([e EXCEPT !.active_shape = None,
                              !.shapes = IF @ = <<>> THEN @ ELSE Front(@)],
                    Unwrap(e.active_shape))
    ELSE e

\* Commits the active shape, if any (app.rs 102-104, 229-231).
take_and_push(e) ==
    IF IsSome(e.active_shape)
    THEN push_shape([e EXCEPT !.active_shape = None], Unwrap(e.active_shape))
    ELSE e

handle_input(e, ptr) ==
    IF e.file_dialog_open THEN e
    ELSE IF ptr.where = "gone" THEN e
    ELSE IF is_over_ui(e, ptr) THEN e
    ELSE IF ptr.where = "outside" THEN
        IF ptr.released THEN take_and_push(e) ELSE e
    ELSE
        LET img_pos == pos2(Clamp(ptr.pos.x, 0, ImageWidth),
                            Clamp(ptr.pos.y, 0, ImageHeight))
        IN IF e.tool = "Select" THEN handle_selection_input(e, ptr, img_pos)
           ELSE IF ~IsSome(e.selection) THEN e
           ELSE IF ~contains(Unwrap(e.selection).rect, img_pos) THEN e
           ELSE IF ptr.pressed THEN
                IF e.tool = "Text"
                THEN [e EXCEPT !.text_input = Some([pos |-> img_pos, text |-> ""])]
                ELSE [e EXCEPT !.active_shape = Some(new_shape(e, e.tool, img_pos))]
           ELSE IF ptr.down THEN
                IF IsSome(e.active_shape)
                THEN [e EXCEPT !.active_shape =
                        Some(extend_shape(Unwrap(e.active_shape), img_pos))]
                ELSE e
           ELSE IF ptr.released THEN take_and_push(e)
           ELSE e

----------------------------------------------------------------------------
(* Export, palette, panels and keys (app.rs 573-805, 1104-1282).           *)

TextScaleUnit == 6

\* An image is written as the drawing commands applied to the captured
\* bitmap, in order, and the region of the canvas it holds.
\* The commands render_full_image runs for a shape (app.rs 1049-1099): a
\* stroke is one draw_line per pair of neighbouring points, so a stroke of a
\* single point draws nothing.
DrawCommand(shape) ==
    CASE shape.kind = "Effect" ->
            << [kind |-> "Effect", effect |-> shape.effect,
                rect |-> normalize_rect(from_two_pos(shape.start, shape.end)),
                strength |-> IF shape.effect = "Pixelate"
                             THEN Max(shape.size, PixelateMinBlock)
                             ELSE Min(Max(shape.size, BlurMinRadius), BlurMaxRadius)] >>
      [] shape.kind = "Text" ->
            << [kind |-> "Text", pos |-> shape.pos, text |-> shape.text,
                color |-> shape.color,
                scale |-> Max((2 * shape.size + TextScaleUnit)
                                    \div (2 * TextScaleUnit), 1)] >>
      [] shape.kind = "Stroke" ->
            [i \in 1..(Len(shape.points) - 1) |->
                [kind |-> "Line", start |-> shape.points[i],
                 end |-> shape.points[i + 1], color |-> shape.color,
                 size |-> shape.size]]
      [] OTHER -> << shape >>

RECURSIVE DrawCommands(_)
DrawCommands(s) ==
    IF s = <<>> THEN <<>>
    ELSE DrawCommands(Front(s)) \o DrawCommand(Last(s))

\* A rendering that draws every shape at the size now set in the editor, for
\* comparison.
render_full_image_at_current_size(e) ==
    [pixels |-> DrawCommands([i \in 1..Len(e.shapes) |->
                                [e.shapes[i] EXCEPT !.size = e.size]]),
     region |-> <<0, 0, ImageWidth, ImageHeight>>]

render_full_image(e) ==
    [pixels |-> DrawCommands(e.shapes),
     region |-> <<0, 0, ImageWidth, ImageHeight>>]

\* crop_image (image_ops.rs 34-55) of an image that holds the whole canvas.
crop_image(img, rect) ==
    LET min_x == Clamp(rect.min.x, 0, img.region[3])
        min_y == Clamp(rect.min.y, 0, img.region[4])
        max_x == Clamp(rect.max.x, 0, img.region[3])
        max_y == Clamp(rect.max.y, 0, img.region[4])
        out_w == Max(max_x - min_x, 0)
        out_h == Max(max_y - min_y, 0)
    IN IF out_w = 0 \/ out_h = 0 THEN img
       ELSE [img EXCEPT !.region = <<min_x, min_y, max_x, max_y>>]

render_image(e) ==
    IF IsSome(e.selection)
    THEN crop_image(render_full_image(e), Unwrap(e.selection).rect)
    ELSE render_full_image(e)

\* copy_and_close: `clip` says what the environment answers: whether
\* WAYLAND_DISPLAY is set, and whether each encoder and helper succeeds.
copy_and_close(e, clip) ==
    LET x11_ok == clip.xclip_png \/ (clip.bmp /\ clip.xclip_bmp)
        copied == clip.wayland /\ clip.png /\ (clip.wl_copy \/ x11_ok)
    IN [e EXCEPT
          !.exported = Some(render_image(e)),
          !.status = IF copied THEN Some("Copied to clipboard")
                     ELSE Some("Clipboard copy failed"),
          !.closed = TRUE]

save_image(e) == [e EXCEPT !.file_dialog = "Open", !.file_dialog_open = TRUE]

\* update(), lines 1184-1203.  `dialog` is what the user does in the file
\* dialog during this frame: "none", "cancel", "pick_ok" (a path is picked
\* and the image is written) or "pick_err" (a path is picked, writing fails).
file_dialog_step(e, dialog) ==
    LET state == IF e.file_dialog /= "Open" THEN e.file_dialog
                 ELSE CASE dialog = "none" -> "Open"
                        [] dialog = "cancel" -> "Cancelled"
                        [] dialog \in {"pick_ok", "pick_err"} -> "Selected"
        e1 == [e EXCEPT !.file_dialog_open = (state = "Open")]
        e2 == IF state = "Selected"
              THEN [e1 EXCEPT
                      !.exported = Some(render_image(e)),
                      !.file_dialog = "Closed",
                      !.status = IF dialog = "pick_ok" THEN Some("Saved")
                                 ELSE Some("Save failed"),
                      !.file_dialog_open = FALSE,
                      !.closed = TRUE]
              ELSE [e1 EXCEPT !.file_dialog = state]
    IN IF e2.file_dialog_open /\ e2.file_dialog = "Closed"
       THEN [e2 EXCEPT !.file_dialog_open = FALSE, !.closed = TRUE]
       ELSE e2

NumButtons == 16

\* `click` is the palette button clicked in this frame, or None.
show_tool_buttons(e, click, clip) ==
    IF e.file_dialog_open THEN e
    ELSE IF ~IsSome(e.selection) THEN e
    ELSE LET e1 == [e EXCEPT !.tool_button_rects = NumButtons]
         IN IF ~IsSome(click) THEN e1
            ELSE LET action == Unwrap(click)
                 IN CASE action.action = "Tool" -> [e1 EXCEPT !.tool = action.tool]
                      [] action.action = "Undo" -> pop_shape(e1)
                      [] action.action = "Copy" -> copy_and_close(e1, clip)
                      [] action.action = "Save" -> save_image(e1)
                      [] action.action = "Clear" -> clear_shapes(e1)

show_tool_controls(e) ==
    IF e.file_dialog_open THEN e
    ELSE IF ~IsSome(e.selection) THEN e
    ELSE [e EXCEPT !.tool_controls_rect = Some("panel")]

\* `typed` is the content the text box holds after this frame's typing, or
\* None when nothing is typed.
show_text_editor(e, typed) ==
    IF e.file_dialog_open THEN e
    ELSE LET e1 == [e EXCEPT !.text_editor_rect = None]
         IN IF ~IsSome(e1.text_input) THEN e1
            ELSE [e1 EXCEPT
                    !.text_editor_rect = Some("editor"),
                    !.text_input = IF IsSome(typed)
                                   THEN Some([Unwrap(@) EXCEPT !.text = Unwrap(typed)])
                                   ELSE @]

\* str::trim of the texts the model types: " " is the blank one.
trim(text) == IF text = " " THEN "" ELSE text

TextMinSize == 8

\* An Enter that commits whatever text is pending, blank or not, for
\* comparison.
enter_key_untrimmed(e) ==
    IF IsSome(e.text_input)
    THEN push_shape([e EXCEPT !.text_input = None],
                    [kind |-> "Text", pos |-> Unwrap(e.text_input).pos,
                     text |-> Unwrap(e.text_input).text, color |-> e.color,
                     size |-> Max(e.size, TextMinSize)])
    ELSE IF e.tool = "Select" /\ IsSome(e.selection)
    THEN [e EXCEPT !.tool = e.last_draw_tool]
    ELSE e

enter_key(e) ==
    IF IsSome(e.text_input) THEN
        LET input == Unwrap(e.text_input)
            e1 == [e EXCEPT !.text_input = None]
        IN IF trim(input.text) /= ""
           THEN push_shape(e1, [kind |-> "Text", pos |-> input.pos,
                                text |-> input.text, color |-> e.color,
                                size |-> Max(e.size, TextMinSize)])
           ELSE e1
    ELSE IF e.tool = "Select" /\ IsSome(e.selection)
    THEN [e EXCEPT !.tool = e.last_draw_tool]
    ELSE e

\* An Escape that closes the session whether or not a text is pending, for
\* comparison.
escape_key_always_closes(e) ==
    [e EXCEPT !.text_input = None, !.closed = TRUE]

escape_key(e) ==
    IF IsSome(e.text_input) THEN [e EXCEPT !.text_input = None]
    ELSE [e EXCEPT !.closed = TRUE]

\* The keyboard part of update() (app.rs 1209-1281), one operator per block.
on_copy(e, in) == IF in.copy THEN copy_and_close(e, in.clip) ELSE e
on_save(e, in) == IF in.save THEN save_image(e) ELSE e
on_undo_redo(e, in) ==
    IF in.redo THEN redo_shape(e)
    ELSE IF in.undo THEN pop_shape(e) ELSE e
\* The current tool remembered whatever it is, for comparison.
remember_any_tool(e) == [e EXCEPT !.last_draw_tool = e.tool]

remember_draw_tool(e) ==
    IF e.tool /= "Select" THEN [e EXCEPT !.last_draw_tool = e.tool] ELSE e
on_enter(e, in) == IF in.enter THEN enter_key(e) ELSE e
on_escape(e, in) == IF in.esc THEN escape_key(e) ELSE e

\* EditorApp::update: one frame with the inputs `in`.  From the innermost
\* call outwards, in the order of the source: handle_input, draw_overlay,
\* the file dialog, the palette, the controls panel, the text editor, then
\* the copy, save and undo/redo shortcuts, last_draw_tool, Enter, Escape.
update(e, in) ==
    on_escape(
     on_enter(
      remember_draw_tool(
       on_undo_redo(
        on_save(
         on_copy(
          show_text_editor(
           show_tool_controls(
            show_tool_buttons(
             file_dialog_step(draw_overlay(handle_input(e, in.ptr)), in.dialog),
             in.click, in.clip)),
           in.typed),
          in),
         in),
        in)),
      in),
     in)

----------------------------------------------------------------------------
(* The pixel effects (effects.rs 6-95), on a buffer of BufWidth*BufHeight  *)
(* pixels.  A buffer is a function from the coordinates <<x, y>> to RGBA   *)
(* values.  Rectangle coordinates are counted in half pixels, so floor and *)
(* ceil have work to do.                                                   *)

BufWidth == PixelCells
BufHeight == PixelCells
Cells == (0..(BufWidth - 1)) \X (0..(BufHeight - 1))

Rgba(v) == <<v % 256, (v \div 2) % 256, (255 - (v % 256)), 255>>

\* The buffers the effects are tried on: one colour everywhere; one colour
\* except for the leftmost column; a different value at every pixel.
Images ==
    {[p \in Cells |-> Rgba(200)],
     [p \in Cells |-> IF p[1] = 0 THEN Rgba(10) ELSE Rgba(200)],
     [p \in Cells |-> Rgba(17 * (p[1] + BufWidth * p[2]))]}

floor(c) == c \div 2
ceil(c) == (c + 1) \div 2

\* A u32 is held as two 16-bit limbs <<high, low>>, so that sums wrap where
\* the machine's do.
Limb == 65536
Word(n) == <<n \div Limb, n % Limb>>
word_lt(a, b) == a[1] < b[1] \/ (a[1] = b[1] /\ a[2] < b[2])
word_min(a, b) == IF word_lt(b, a) THEN b ELSE a
word_max(a, b) == IF word_lt(a, b) THEN b ELSE a
\* a + b on u32: the wrapped sum and whether it overflowed (a panic in a
\* build with overflow checks, a silent wrap otherwise).
word_add(a, b) ==
    [value |-> <<(a[1] + b[1] + (a[2] + b[2]) \div Limb) % Limb,
                 (a[2] + b[2]) % Limb>>,
     overflow |-> a[1] + b[1] + (a[2] + b[2]) \div Limb >= Limb]
\* The value of a u32 below 2^31.
to_int(w) == w[1] * Limb + w[2]

I32Max == (Limb \div 2 - 1) * Limb + (Limb - 1)
\* `as i32` of a u32: the same 32 bits read as two's complement.
as_i32(w) == IF w[1] < Limb \div 2 THEN to_int(w) ELSE (w[1] - Limb) * Limb + w[2]
\* a + b and a - b on i32, as word_add.
i32_add(a, b) ==
    IF b > 0 /\ a > I32Max - b
    THEN [value |-> (a - I32Max - 1) + (b - I32Max - 1), overflow |-> TRUE]
    ELSE IF b < 0 /\ a < (-I32Max - 1) - b
    THEN [value |-> (a + I32Max + 1) + (b + I32Max + 1), overflow |-> TRUE]
    ELSE [value |-> a + b, overflow |-> FALSE]
i32_sub(a, b) ==
    IF b < 0 /\ a > I32Max + b
    THEN [value |-> (a - I32Max - 1) - (b + I32Max + 1), overflow |-> TRUE]
    ELSE IF b > 0 /\ a < (-I32Max - 1) + b
    THEN [value |-> (a + I32Max + 1) - (b - I32Max - 1), overflow |-> TRUE]
    ELSE [value |-> a - b, overflow |-> FALSE]

RECURSIVE SumChannel(_, _, _)
SumChannel(img, cell, ch) ==
    IF cell = {} THEN 0
    ELSE LET p == CHOOSE q \in cell : TRUE
         IN img[p][ch] + SumChannel(img, cell \ {p}, ch)

\* An average whose divisor is one too large, for comparison.
average_off_by_one(img, cell) ==
    [ch \in 1..4 |-> SumChannel(img, cell, ch) \div (Cardinality(cell) + 1)]

\* The average the two effects write: each channel's sum divided by the
\* number of samples (effects.rs 35-41, 84-90).
Average(img, cell) ==
    [ch \in 1..4 |-> SumChannel(img, cell, ch) \div Cardinality(cell)]

\* The pixels [x, bx) x [y, by).
Block(x, bx, y, by) ==
    {p \in (x..(bx - 1)) \X (y..(by - 1)) : TRUE}

\* One cell of apply_pixelate (effects.rs 18-47); st is the buffer, whether
\* the call has panicked, and the pixels written so far.
pixelate_cell(st, cell) ==
    IF cell = {} THEN st
    ELSE IF ~(cell \subseteq DOMAIN st.img) THEN [st EXCEPT !.panicked = TRUE]
    ELSE [st EXCEPT !.img = [p \in DOMAIN st.img |->
                                IF p \in cell THEN Average(st.img, cell)
                                ELSE st.img[p]],
                    !.writes = @ \cup cell]

\* The inner loop (effects.rs 16-49) from column x on.
RECURSIVE pixelate_row(_, _, _, _, _, _, _)
pixelate_row(st, x, y, max_x, max_y, block, build) ==
    IF st.panicked \/ ~word_lt(x, max_x) THEN st
    ELSE IF build = "checked" /\ (word_add(x, block).overflow
                                    \/ word_add(y, block).overflow)
    THEN [st EXCEPT !.panicked = TRUE]
    ELSE pixelate_row(
            pixelate_cell(st,
                Block(to_int(x),
                      to_int(word_min(word_add(x, block).value, max_x)),
                      to_int(y),
                      to_int(word_min(word_add(y, block).value, max_y)))),
            word_add(x, block).value, y, max_x, max_y, block, build)

\* The outer loop (effects.rs 14-51) from row y on.
RECURSIVE pixelate_rows(_, _, _, _, _, _, _)
pixelate_rows(st, min_x, y, max_x, max_y, block, build) ==
    IF st.panicked \/ ~word_lt(y, max_y) THEN st
    ELSE IF build = "checked" /\ word_add(y, block).overflow
    THEN [pixelate_row(st, min_x, y, max_x, max_y, block, build)
            EXCEPT !.panicked = TRUE]
    ELSE pixelate_rows(pixelate_row(st, min_x, y, max_x, max_y, block, build),
                       min_x, word_add(y, block).value, max_x, max_y, block,
                       build)

\* The region [min_x, max_x) x [min_y, max_y) both effects work on
\* (effects.rs 7-11, 55-59): a float below zero becomes 0 as u32 and stays
\* negative as i32.
effect_region(rect, signed) ==
    [min_x |-> Max(floor(normalize_rect(rect).min.x), 0),
     min_y |-> Max(floor(normalize_rect(rect).min.y), 0),
     max_x |-> IF signed THEN Min(ceil(normalize_rect(rect).max.x), BufWidth)
               ELSE Max(Min(ceil(normalize_rect(rect).max.x), BufWidth), 0),
     max_y |-> IF signed THEN Min(ceil(normalize_rect(rect).max.y), BufHeight)
               ELSE Max(Min(ceil(normalize_rect(rect).max.y), BufHeight), 0)]

\* apply_pixelate (effects.rs 6-52): the buffer after the call, whether the
\* call panicked, and what it wrote.  block is a u32; build says whether
\* the arithmetic is checked for overflow.
apply_pixelate(img, rect, block, build) ==
    pixelate_rows([img |-> img, panicked |-> FALSE, writes |-> {}],
                  Word(effect_region(rect, FALSE).min_x),
                  Word(effect_region(rect, FALSE).min_y),
                  Word(effect_region(rect, FALSE).max_x),
                  Word(effect_region(rect, FALSE).max_y),
                  word_max(block, Word(2)), build)

\* A sample window that is not kept from running off the low side of the
\* buffer, for comparison.
blur_window_unclamped(p, reg, radius) ==
    [y0 |-> i32_sub(p[2], radius).value,
     y1 |-> Min(i32_add(p[2], radius).value, reg.max_y - 1),
     x0 |-> i32_sub(p[1], radius).value,
     x1 |-> Min(i32_add(p[1], radius).value, reg.max_x - 1),
     overflow |-> \/ i32_sub(p[2], radius).overflow
                  \/ i32_add(p[2], radius).overflow
                  \/ i32_sub(p[1], radius).overflow
                  \/ i32_add(p[1], radius).overflow]

\* The sample window of the pixel p (effects.rs 70-73), radius an i32.
blur_window(p, reg, radius) ==
    [y0 |-> Max(i32_sub(p[2], radius).value, 0),
     y1 |-> Min(i32_add(p[2], radius).value, reg.max_y - 1),
     x0 |-> Max(i32_sub(p[1], radius).value, 0),
     x1 |-> Min(i32_add(p[1], radius).value, reg.max_x - 1),
     overflow |-> \/ i32_sub(p[2], radius).overflow
                  \/ i32_add(p[2], radius).overflow
                  \/ i32_sub(p[1], radius).overflow
                  \/ i32_add(p[1], radius).overflow]

WindowEmpty(w) == w.x1 < w.x0 \/ w.y1 < w.y0
WindowInside(w) ==
    WindowEmpty(w) \/ ( /\ 0 <= w.x0 /\ w.x1 < BufWidth
                        /\ 0 <= w.y0 /\ w.y1 < BufHeight )
Samples(w) ==
    IF WindowEmpty(w) THEN 0 ELSE (w.x1 - w.x0 + 1) * (w.y1 - w.y0 + 1)

\* The pixels of a region, which the loops of apply_blur visit (effects.rs
\* 63-64), and their order.
region_pixels(reg) ==
    {p \in (reg.min_x..(reg.max_x - 1)) \X (reg.min_y..(reg.max_y - 1)) : TRUE}
Before(q, p) == q[2] < p[2] \/ (q[2] = p[2] /\ q[1] < p[1])

\* Whether visiting p ends the call in a panic: an overflow in a checked
\* build, or a get_pixel / put_pixel outside the buffer.
blur_stops(p, reg, radius, build) ==
    \/ build = "checked" /\ blur_window(p, reg, radius).overflow
    \/ ~WindowInside(blur_window(p, reg, radius))
    \/ (~WindowEmpty(blur_window(p, reg, radius)) /\ p \notin Cells)

\* The pixels at which the call would end, and those visited before the
\* first of them.
blur_stoppers(reg, radius, build) ==
    {q \in region_pixels(reg) : blur_stops(q, reg, radius, build)}
blur_visited(reg, stoppers) ==
    {p \in region_pixels(reg) : \A q \in stoppers : Before(p, q)}

\* The loops run over `todo` in their order, every window sampled from the
\* buffer as it is when its pixel is reached, for comparison.
RECURSIVE blur_in_place(_, _, _, _)
blur_in_place(img, reg, radius, todo) ==
    IF todo = {} THEN img
    ELSE LET p == CHOOSE q \in todo : \A o \in todo : o = q \/ Before(q, o)
         IN blur_in_place(
                [img EXCEPT ![p] =
                    IF WindowEmpty(blur_window(p, reg, radius)) THEN @
                    ELSE Average(img, Block(blur_window(p, reg, radius).x0,
                                            blur_window(p, reg, radius).x1 + 1,
                                            blur_window(p, reg, radius).y0,
                                            blur_window(p, reg, radius).y1 + 1))],
                reg, radius, todo \ {p})

blur_result_in_place(img, reg, radius, stoppers, visited) ==
    [img |-> blur_in_place(img, reg, radius, visited),
     panicked |-> stoppers /= {},
     windows |-> [p \in visited \cup {q \in stoppers :
                                        \A o \in stoppers : o = q \/ Before(q, o)}
                    |-> blur_window(p, reg, radius)],
     writes |-> {p \in visited : ~WindowEmpty(blur_window(p, reg, radius))}]

\* The buffer after the loops have run over `visited`, whether the call
\* panicked, the windows it computed (those of the visited pixels and of
\* the one it stopped at), and the pixels it wrote.
blur_result(img, reg, radius, stoppers, visited) ==
    [img |-> [p \in DOMAIN img |->
                IF p \in visited /\ ~WindowEmpty(blur_window(p, reg, radius))
                THEN Average(img, Block(blur_window(p, reg, radius).x0,
                                        blur_window(p, reg, radius).x1 + 1,
                                        blur_window(p, reg, radius).y0,
                                        blur_window(p, reg, radius).y1 + 1))
                ELSE img[p]],
     panicked |-> stoppers /= {},
     windows |-> [p \in visited \cup {q \in stoppers :
                                        \A o \in stoppers : o = q \/ Before(q, o)}
                    |-> blur_window(p, reg, radius)],
     writes |-> {p \in visited : ~WindowEmpty(blur_window(p, reg, radius))}]

\* apply_blur (effects.rs 54-95) from the clamped region on.
apply_blur_region(img, reg, radius, build) ==
    blur_result(img, reg, radius, blur_stoppers(reg, radius, build),
                blur_visited(reg, blur_stoppers(reg, radius, build)))

apply_blur(img, rect, radius, build) ==
    apply_blur_region(img, effect_region(rect, TRUE),
                      as_i32(word_max(radius, Word(1))), build)

----------------------------------------------------------------------------
(* The session: the state after EditorApp::new and one action per kind of  *)
(* frame.  A frame carries one event; the rest of its input is empty.      *)

Self ==
    [tool |-> tool, last_draw_tool |-> last_draw_tool, color |-> color,
     size |-> size, shapes |-> shapes, active_shape |-> active_shape,
     redo_stack |-> redo_stack, selection |-> selection,
     selection_drag |-> selection_drag, status |-> status,
     tool_button_rects |-> tool_button_rects,
     tool_controls_rect |-> tool_controls_rect, text_input |-> text_input,
     text_editor_rect |-> text_editor_rect, shapes_version |-> shapes_version,
     effect_previews |-> effect_previews, file_dialog |-> file_dialog,
     file_dialog_open |-> file_dialog_open, closed |-> closed,
     exported |-> exported, shown |-> shown, trail |-> trail, noop |-> {}]

Commit(e) ==
    /\ tool' = e.tool
    /\ last_draw_tool' = e.last_draw_tool
    /\ color' = e.color
    /\ size' = e.size
    /\ shapes' = e.shapes
    /\ active_shape' = e.active_shape
    /\ redo_stack' = e.redo_stack
    /\ selection' = e.selection
    /\ selection_drag' = e.selection_drag
    /\ status' = e.status
    /\ tool_button_rects' = e.tool_button_rects
    /\ tool_controls_rect' = e.tool_controls_rect
    /\ text_input' = e.text_input
    /\ text_editor_rect' = e.text_editor_rect
    /\ shapes_version' = e.shapes_version
    /\ effect_previews' = e.effect_previews
    /\ file_dialog' = e.file_dialog
    /\ file_dialog_open' = e.file_dialog_open
    /\ closed' = e.closed
    /\ exported' = e.exported
    /\ shown' = e.shown
    /\ trail' = e.trail
    /\ noop' = e.noop
    /\ fx' = fx
    /\ proc' = proc
    /\ daemon' = daemon

\* The daemon is followed for a bounded number of quit calls on the bus and a
\* bounded number of clicks in the tray.
MaxQuits == 3
MaxClicks == 3

InitialSize == 3

Init ==
    /\ tool = "Select"
    /\ last_draw_tool = "Pencil"
    /\ color = [rgb |-> "ff0000", a |-> 255]
    /\ size = InitialSize
    /\ shapes = <<>>
    /\ active_shape = None
    /\ redo_stack = <<>>
    /\ selection = None
    /\ selection_drag = None
    /\ status = None
    /\ tool_button_rects = 0
    /\ tool_controls_rect = None
    /\ text_input = None
    /\ text_editor_rect = None
    /\ shapes_version = 0
    /\ effect_previews = <<>>
    /\ file_dialog = "Closed"
    /\ file_dialog_open = FALSE
    /\ closed = FALSE
    /\ exported = None
    /\ primary_down = FALSE
    /\ shown = <<>>
    /\ trail = <<>>
    /\ noop = {}
    /\ fx = [fn |-> "none"]
    /\ proc = [pc |-> "start", command |-> None, slept |-> 0,
               capture |-> "none", files |-> {}, viewer |-> FALSE,
               result |-> None]
    /\ daemon = [pc |-> "off", sender |-> FALSE, signal |-> "none",
                 calls |-> [i \in 1..MaxQuits |-> "idle"], queue |-> <<>>,
                 clicks |-> 0, sends |-> 0, spawned |-> 0, ended_by |-> "none"]

\* Where a pointer event can be: on the image at one of the positions P,
\* over a UI region, outside the image widget, or nowhere (`regions` says
\* which of these four the session uses).
Regions == {"buttons", "controls", "editor", "outside", "gone"}

Targets(P, regions) ==
    {[where |-> "image", over |-> "none", pos |-> p] : p \in P}
    \cup {[where |-> "image", over |-> u, pos |-> pos2(0, 0)] :
            u \in regions \cap {"buttons", "controls", "editor"}}
    \cup {[where |-> w, over |-> "none", pos |-> pos2(0, 0)] :
            w \in regions \cap {"outside", "gone"}}

Pointer(t, pressed, down, released) ==
    [where |-> t.where, over |-> t.over, pos |-> t.pos, pressed |-> pressed,
     down |-> down, released |-> released]

NoPointer ==
    [where |-> "gone", over |-> "none", pos |-> pos2(0, 0), pressed |-> FALSE,
     down |-> FALSE, released |-> FALSE]

\* What the environment answers to copy_and_close; the answer of a call that
\* is not made is written FALSE.
ClipboardOutcomes ==
    {c \in [wayland : BOOLEAN, png : BOOLEAN, wl_copy : BOOLEAN,
            xclip_png : BOOLEAN, bmp : BOOLEAN, xclip_bmp : BOOLEAN] :
        /\ ~c.wayland => ~c.png
        /\ ~c.png => ~c.wl_copy /\ ~c.xclip_png /\ ~c.bmp
        /\ c.xclip_png => ~c.bmp
        /\ ~c.bmp => ~c.xclip_bmp}

NoClipboard ==
    [wayland |-> FALSE, png |-> FALSE, wl_copy |-> FALSE, xclip_png |-> FALSE,
     bmp |-> FALSE, xclip_bmp |-> FALSE]

NoInput ==
    [ptr |-> NoPointer, dialog |-> "none", click |-> None, clip |-> NoClipboard,
     typed |-> None, copy |-> FALSE, save |-> FALSE, undo |-> FALSE,
     redo |-> FALSE, enter |-> FALSE, esc |-> FALSE]

\* The texts the user types into the text box.
Texts == {" ", "A"}

StrokeWithinBound(e) ==
    IsSome(e.active_shape) /\ Unwrap(e.active_shape).kind = "Stroke"
        => Len(Unwrap(e.active_shape).points) <= MaxStroke

\* One frame: update() runs on the current state with the input `in`.  The
\* environment `env` says what the user does in a session:
\*   positions : where pointer events on the image are,
\*   regions   : where pointer events off the image are,
\*   drag      : whether the pointer moves while a shape is drawn,
\*   tools     : the palette buttons clicked,
\*   texts     : what is typed into the text box,
\*   shapes    : a drawing press is offered while fewer shapes are committed,
\*   versions  : frames are offered while shapes_version stays within it.
\* The frames a session delivers: those whose result stays within its limits.
Offered(e, env) ==
    /\ e.shapes_version <= env.versions
    /\ Len(e.effect_previews) <= MaxPreviews
    /\ StrokeWithinBound(e)

\* The editor is `e` after the frame.
FrameTo(e, env) == Offered(e, env) /\ Commit(e)

\* No frame runs once the window has been told to close.
Frame(in, env) == ~closed /\ FrameTo(update(Self, in), env)

\* The UI region a pointer event aims at is one that is registered.
Aimed(t) == t.over /= "none" => is_over_ui(Self, t)

PointerPress(env) ==
    /\ ~primary_down
    /\ \E t \in Targets(env.positions, env.regions) :
        /\ Aimed(t)
        /\ tool /= "Select" => Len(shapes) < env.shapes
        /\ Frame([NoInput EXCEPT !.ptr = Pointer(t, TRUE, TRUE, FALSE)], env)
    /\ primary_down' = TRUE

PointerHold(env) ==
    /\ primary_down
    /\ \E t \in Targets(env.positions, env.regions) :
        /\ Aimed(t)
        /\ tool /= "Select" => env.drag
        /\ Frame([NoInput EXCEPT !.ptr = Pointer(t, FALSE, TRUE, FALSE)], env)
    /\ primary_down' = TRUE

PointerRelease(env) ==
    /\ primary_down
    /\ \E t \in Targets(env.positions, env.regions) :
        /\ Aimed(t)
        /\ Frame([NoInput EXCEPT !.ptr = Pointer(t, FALSE, FALSE, TRUE)], env)
    /\ primary_down' = FALSE

IdleFrame(env) ==
    /\ Frame(NoInput, env)
    /\ UNCHANGED primary_down

\* The palette is on screen in a frame that has a selection and no file
\* dialog; a click is a press and a release on one button.
PaletteShown == IsSome(selection) /\ ~file_dialog_open /\ ~primary_down

ClickFrame(action, clip, env) ==
    /\ PaletteShown
    /\ Frame([NoInput EXCEPT
                !.ptr = [NoPointer EXCEPT !.where = "image", !.over = "buttons",
                                          !.pressed = TRUE, !.released = TRUE],
                !.click = Some(action), !.clip = clip], env)
    /\ UNCHANGED primary_down

ClickTool(env) ==
    \E t \in env.tools : ClickFrame([action |-> "Tool", tool |-> t], NoClipboard, env)
ClickUndo(env) == ClickFrame([action |-> "Undo"], NoClipboard, env)
ClickCopy(env) ==
    \E clip \in ClipboardOutcomes : ClickFrame([action |-> "Copy"], clip, env)
ClickSave(env) == ClickFrame([action |-> "Save"], NoClipboard, env)
ClickClear(env) == ClickFrame([action |-> "Clear"], NoClipboard, env)

KeyFrame(in, env) == Frame(in, env) /\ UNCHANGED primary_down

KeyCopy(env) ==
    \E clip \in ClipboardOutcomes :
        KeyFrame([NoInput EXCEPT !.copy = TRUE, !.clip = clip], env)
KeySave(env) == KeyFrame([NoInput EXCEPT !.save = TRUE], env)
KeyUndo(env) == KeyFrame([NoInput EXCEPT !.undo = TRUE], env)
KeyRedo(env) == KeyFrame([NoInput EXCEPT !.redo = TRUE], env)
KeyEnter(env) == KeyFrame([NoInput EXCEPT !.enter = TRUE], env)
KeyEscape(env) == KeyFrame([NoInput EXCEPT !.esc = TRUE], env)

TypeText(env) ==
    /\ IsSome(text_input) /\ ~file_dialog_open
    /\ \E t \in env.texts : KeyFrame([NoInput EXCEPT !.typed = Some(t)], env)

DialogChoice(env) ==
    /\ file_dialog = "Open"
    /\ \E d \in {"cancel", "pick_ok", "pick_err"} :
        KeyFrame([NoInput EXCEPT !.dialog = d], env)

Diagonal(n) == {pos2(i * Step, i * Step) : i \in 0..n}
Grid(n) == {pos2(i * Step, j * Step) : i \in 0..n, j \in 0..n}

----------------------------------------------------------------------------
(* Spec: an annotation session with the pencil and the text tool.  The     *)
(* user selects a region, leaves the Select tool with Enter or the         *)
(* palette, draws dots, types labels and uses undo, redo, clear and        *)
(* Escape; a pointer event may land on the palette or find no pointer.     *)

DrawEnv ==
    [positions |-> Diagonal(1), regions |-> {"buttons", "gone"}, drag |-> FALSE,
     tools |-> {"Pencil", "Text"}, texts |-> Texts,
     shapes |-> DrawShapes, versions |-> DrawVersions]

Next ==
    \/ PointerPress(DrawEnv)
    \/ PointerHold(DrawEnv)
    \/ PointerRelease(DrawEnv)
    \/ IdleFrame(DrawEnv)
    \/ ClickTool(DrawEnv)
    \/ ClickUndo(DrawEnv)
    \/ ClickClear(DrawEnv)
    \/ KeyUndo(DrawEnv)
    \/ KeyRedo(DrawEnv)
    \/ KeyEnter(DrawEnv)
    \/ KeyEscape(DrawEnv)
    \/ TypeText(DrawEnv)

Spec == Init /\ [][Next]_vars

\* The last operation recorded by the observer, when there is one.
LastOp == IF trail = <<>> THEN "none" ELSE Last(trail).op

\* C2: a commit empties the redo stack, so a redo that follows a commit
\* (in particular after commit, undo, commit) changes neither the committed
\* list, nor the redo stack, nor the version counter; no effective redo
\* ever follows a commit directly.
C2_RedoInvalidation ==
    /\ LastOp = "push" =>
          /\ redo_stack = <<>>
          /\ redo_shape(Self).shapes = shapes
          /\ redo_shape(Self).redo_stack = redo_stack
          /\ redo_shape(Self).shapes_version = shapes_version
    /\ \A i \in 2..Len(trail) : trail[i].op = "redo" => trail[i - 1].op /= "push"

\* commit, undo, and a Text committed with Enter, then Ctrl+Shift+Z, which
\* did nothing.
C2_Witness ==
    /\ Len(trail) >= 3
    /\ trail[Len(trail) - 2].op = "push"
    /\ trail[Len(trail) - 1].op = "pop"
    /\ trail[Len(trail)].op = "push"
    /\ Unwrap(trail[Len(trail)].shape).kind = "Text"
    /\ "redo" \in noop

\* C7 (as stated): with the button up there is no active shape.
C7_NoActiveShapeWithButtonUp == ~primary_down => ~IsSome(active_shape)

----------------------------------------------------------------------------
(* SpecHistory: a longer editing history with the callout and pencil       *)
(* tools.                                                                  *)

HistEnv ==
    [positions |-> Diagonal(1), regions |-> {}, drag |-> FALSE,
     tools |-> {"Pencil", "CircleCount"}, texts |-> {},
     shapes |-> HistShapes, versions |-> HistVersions]

HistNext ==
    \/ PointerPress(HistEnv)
    \/ PointerHold(HistEnv)
    \/ PointerRelease(HistEnv)
    \/ ClickTool(HistEnv)
    \/ ClickUndo(HistEnv)
    \/ ClickClear(HistEnv)
    \/ KeyUndo(HistEnv)
    \/ KeyRedo(HistEnv)

SpecHistory == Init /\ [][HistNext]_vars

\* C1: a commit of X onto the list S followed by an undo gives S back with
\* X on top of the redo stack, and a redo after that gives S followed by X.
C1_UndoRedoDuality ==
    LET n == Len(trail)
    IN /\ (n >= 2 /\ trail[n - 1].op = "push" /\ trail[n].op = "pop") =>
            /\ shapes = trail[n - 1].before
            /\ redo_stack /= <<>>
            /\ Last(redo_stack) = Unwrap(trail[n - 1].shape)
       /\ (n >= 3 /\ trail[n - 2].op = "push" /\ trail[n - 1].op = "pop"
                  /\ trail[n].op = "redo") =>
            shapes = Append(trail[n - 2].before, Unwrap(trail[n - 2].shape))

\* A shape was committed onto a non-empty list, undone and redone.
C1_Witness ==
    /\ Len(trail) >= 3
    /\ trail[Len(trail) - 2].op = "push"
    /\ trail[Len(trail) - 2].before /= <<>>
    /\ trail[Len(trail) - 1].op = "pop"
    /\ trail[Len(trail)].op = "redo"

\* C3 (as stated): after a call of clear_shapes the committed list and the
\* redo stack are both empty, whatever the state it was called in.
C3_ClearEmptiesBoth ==
    (LastOp = "clear" \/ "clear" \in noop) =>
        shapes = <<>> /\ redo_stack = <<>>

\* The counts of the committed callouts, in list order.
CommittedCounts == SelectSeq(shapes, IsCircleCount)

\* The largest count among the committed callouts, 0 when there is none.
LargestCount ==
    LET counts == {shapes[i].count : i \in {j \in 1..Len(shapes) :
                                               IsCircleCount(shapes[j])}}
    IN IF counts = {} THEN 0
       ELSE CHOOSE c \in counts : \A d \in counts : d <= c

\* C8: the callout a press starts is numbered one more than the largest
\* count among the callouts committed at that press.
C8_NumberAtPress ==
    [][(/\ ~primary_down /\ primary_down'
        /\ active_shape' /= active_shape
        /\ IsSome(active_shape')
        /\ IsCircleCount(Unwrap(active_shape')))
       => Unwrap(active_shape').count = 1 + LargestCount]_vars

\* Callouts 1, 2 and 3 were committed with a stroke among them, the third
\* was undone, and the callout being placed is numbered 3 again.
C8_Witness ==
    /\ IsSome(active_shape)
    /\ IsCircleCount(Unwrap(active_shape))
    /\ Unwrap(active_shape).count = 3
    /\ LastOp = "pop"
    /\ IsCircleCount(Unwrap(Last(trail).shape))
    /\ Unwrap(Last(trail).shape).count = 3
    /\ Len(CommittedCounts) = 2
    /\ Len(shapes) = 3

\* C9 (as stated): the counts of the committed callouts, read in list
\* order, are strictly increasing.
C9_CountsIncrease ==
    \A i, j \in 1..Len(CommittedCounts) :
        i < j => CommittedCounts[i].count < CommittedCounts[j].count

----------------------------------------------------------------------------
(* SpecEffects: blur regions are dragged out over pencil dots, committed,   *)
(* undone and redone.                                                      *)

EffectEnv ==
    [positions |-> Diagonal(ImageCells), regions |-> {}, drag |-> TRUE,
     tools |-> {"Pencil", "Blur"}, texts |-> {},
     shapes |-> EffectShapes, versions |-> EffectVersions]

EffectNext ==
    \/ PointerPress(EffectEnv)
    \/ PointerHold(EffectEnv)
    \/ PointerRelease(EffectEnv)
    \/ IdleFrame(EffectEnv)
    \/ ClickTool(EffectEnv)
    \/ ClickClear(EffectEnv)
    \/ KeyUndo(EffectEnv)
    \/ KeyRedo(EffectEnv)

SpecEffects == Init /\ [][EffectNext]_vars

\* The cache key of an effect: its clamped rectangle, None when empty.
KeyOf(effect) ==
    rect_to_u32(normalize_rect(from_two_pos(effect.start, effect.end)))

\* C4: a preview is taken from the cache only when the slot's rectangle,
\* kind, size and version equal the request's and the version of the frame;
\* every texture painted, cached or not, is the effect applied to the crop
\* of the effect-free image of the frame that painted it; and no slot of the
\* cache outlives a change of the committed list.
C4_PreviewCoherence ==
    /\ \A i \in 1..Len(shown) :
        /\ IsSome(shown[i].cached) =>
            /\ Some(Unwrap(shown[i].cached).rect) = KeyOf(shown[i].effect)
            /\ Unwrap(shown[i].cached).kind = shown[i].effect.effect
            /\ Unwrap(shown[i].cached).size = size_param(shown[i].effect)
            /\ Unwrap(shown[i].cached).shapes_version = shown[i].version
        /\ IsSome(shown[i].texture) =>
            /\ IsSome(KeyOf(shown[i].effect))
            /\ Unwrap(shown[i].texture) =
                    Texture(shown[i].base, Unwrap(KeyOf(shown[i].effect)),
                            shown[i].effect)
    /\ \A i \in 1..Len(effect_previews) :
        effect_previews[i].shapes_version = shapes_version

\* After a redo, an effect is painted from the cache over an image that
\* holds a committed shape.
C4_Witness ==
    /\ LastOp = "redo"
    /\ \E i \in 1..Len(shown) :
        /\ IsSome(shown[i].texture)
        /\ IsSome(shown[i].cached)
        /\ shown[i].base /= <<>>
        /\ shown[i].base = render_full_image_without_effects(Self)

----------------------------------------------------------------------------
(* SpecSelect: the region is created, moved and resized over a grid of     *)
(* pointer positions; pointer events may land on the panels, outside the   *)
(* window or find no pointer; the user leaves the Select tool with Enter   *)
(* or the palette and comes back to it.  Nothing is drawn.                 *)

SelectEnv ==
    [positions |-> Grid(ImageCells), regions |-> Regions, drag |-> FALSE,
     tools |-> {"Select", "Pencil"}, texts |-> {}, shapes |-> 0, versions |-> 0]

SelectNext ==
    \/ PointerPress(SelectEnv)
    \/ PointerHold(SelectEnv)
    \/ PointerRelease(SelectEnv)
    \/ ClickTool(SelectEnv)
    \/ KeyEnter(SelectEnv)

SpecSelect == Init /\ [][SelectNext]_vars

\* C5: the selection rectangle, when there is one, is not inverted and lies
\* within the image.
C5_SelectionClamp ==
    IsSome(selection) =>
        LET r == Unwrap(selection).rect
        IN /\ 0 <= r.min.x /\ r.min.x <= r.max.x /\ r.max.x <= ImageWidth
           /\ 0 <= r.min.y /\ r.min.y <= r.max.y /\ r.max.y <= ImageHeight

\* The region is being moved and lies against the far edge of the image,
\* away from the near one.
C5_Witness ==
    /\ IsSome(selection) /\ IsSome(selection_drag)
    /\ Unwrap(selection_drag).drag = "Moving"
    /\ Unwrap(selection).rect.max.y = ImageHeight
    /\ Unwrap(selection).rect.min.y > 0
    /\ Unwrap(selection_drag).offset.y < Unwrap(selection).rect.min.y

\* C6 (as stated): with the button up, a selection is at least 1 px wide
\* and 1 px high.
C6_NoDegenerateSelectionWithButtonUp ==
    (~primary_down /\ IsSome(selection)) =>
        /\ width(Unwrap(selection).rect) >= 1
        /\ height(Unwrap(selection).rect) >= 1

----------------------------------------------------------------------------
(* SpecExport: with or without a region, the user copies to the clipboard  *)
(* or saves to a file, from the keyboard or the palette, and answers the   *)
(* file dialog; the environment decides what succeeds.                     *)

ExportEnv ==
    [positions |-> Diagonal(1), regions |-> {"buttons"}, drag |-> FALSE,
     tools |-> {"Pencil"}, texts |-> {}, shapes |-> 1, versions |-> 1]

ExportNext ==
    \/ PointerPress(ExportEnv)
    \/ PointerHold(ExportEnv)
    \/ PointerRelease(ExportEnv)
    \/ ClickTool(ExportEnv)
    \/ KeyCopy(ExportEnv)
    \/ ClickCopy(ExportEnv)
    \/ KeySave(ExportEnv)
    \/ ClickSave(ExportEnv)
    \/ DialogChoice(ExportEnv)
    \/ KeyEscape(ExportEnv)

SpecExport == Init /\ [][ExportNext]_vars

\* C11 (as stated): the image rendered for an export holds exactly the
\* region [floor(min), ceil(max)) of the selection when there is a
\* selection, and the whole canvas only when there is none.
C11_CropExport ==
    IsSome(exported) =>
        Unwrap(exported).region =
            IF IsSome(selection)
            THEN <<Unwrap(selection).rect.min.x, Unwrap(selection).rect.min.y,
                   Unwrap(selection).rect.max.x, Unwrap(selection).rect.max.y>>
            ELSE <<0, 0, ImageWidth, ImageHeight>>

\* C10 (as stated): a failed copy or a failed save sends no close command.
C10_FailureKeepsSessionOpen ==
    status \in {Some("Clipboard copy failed"), Some("Save failed")} => ~closed

----------------------------------------------------------------------------
(* SpecPanels: a short session with the pencil and the text tool in which  *)
(* every pointer event that is not on the image lands on the palette, the  *)
(* controls panel or the text box.                                         *)

PanelEnv ==
    [positions |-> Diagonal(1), regions |-> {"buttons", "controls", "editor"},
     drag |-> FALSE, tools |-> {"Select", "Pencil", "Text"}, texts |-> {"A"},
     shapes |-> 1, versions |-> 1]

PanelNext ==
    \/ PointerPress(PanelEnv)
    \/ PointerHold(PanelEnv)
    \/ PointerRelease(PanelEnv)
    \/ ClickTool(PanelEnv)
    \/ TypeText(PanelEnv)
    \/ KeyEnter(PanelEnv)

SpecPanels == Init /\ [][PanelNext]_vars

\* The UI rectangles the editor has registered.
RegisteredRegions ==
    (IF tool_button_rects > 0 THEN {"buttons"} ELSE {})
    \cup (IF IsSome(tool_controls_rect) THEN {"controls"} ELSE {})
    \cup (IF IsSome(text_editor_rect) THEN {"editor"} ELSE {})

\* The states of the primary button a frame can report.
ButtonStates ==
    {<<TRUE, TRUE, FALSE>>, <<FALSE, TRUE, FALSE>>, <<FALSE, FALSE, TRUE>>,
     <<FALSE, FALSE, FALSE>>, <<TRUE, FALSE, TRUE>>}

\* A frame whose only event is the pointer at `pos`, inside the registered
\* region u, with the button in state b.
PointerOverPanel(u, pos, b) ==
    [NoInput EXCEPT !.ptr = [where |-> "image", over |-> u, pos |-> pos,
                             pressed |-> b[1], down |-> b[2], released |-> b[3]]]

OffRect(r, p) ==
    \/ p.x < r.min.x \/ p.x > r.max.x
    \/ p.y < r.min.y \/ p.y > r.max.y

\* A frame whose only event is a press on the image at pos.
PressAt(pos) ==
    [NoInput EXCEPT !.ptr = [where |-> "image", over |-> "none", pos |-> pos,
                             pressed |-> TRUE, down |-> TRUE, released |-> FALSE]]

\* The frame leaves the drawing state of `before` as it is.
DrawingUntouched(before, after) ==
    /\ after.active_shape = before.active_shape
    /\ after.text_input = before.text_input
    /\ after.shapes = before.shapes
    /\ after.redo_stack = before.redo_stack
    /\ after.shapes_version = before.shapes_version

\* C13: with any tool but Select, a press outside the selection rectangle,
\* or a press anywhere when there is no selection, starts no shape and no
\* text input and leaves the committed list, the redo stack and the version
\* counter as they are.
C13_InertOutsideSelection ==
    \A t \in Tool \ {"Select"}, pos \in Grid(ImageCells) :
        /\ (IsSome(selection) /\ OffRect(Unwrap(selection).rect, pos)) =>
                DrawingUntouched(Self, handle_input([Self EXCEPT !.tool = t],
                                                    PressAt(pos).ptr))
        /\ DrawingUntouched(Self, handle_input([Self EXCEPT !.tool = t,
                                                            !.selection = None],
                                               PressAt(pos).ptr))
        /\ (t = tool /\ IsSome(selection)
                     /\ OffRect(Unwrap(selection).rect, pos)) =>
                DrawingUntouched(Self, update(Self, PressAt(pos)))

\* The button went down with a drawing tool at a point off the selection:
\* nothing is being drawn.
C13_Witness ==
    /\ primary_down
    /\ tool /= "Select"
    /\ ~IsSome(active_shape)
    /\ IsSome(selection)
    /\ \E pos \in Diagonal(ImageCells) : OffRect(Unwrap(selection).rect, pos)

----------------------------------------------------------------------------
(* Order of rendering (app.rs 380-452, 937-1102), checked in SpecEffects.  *)

\* The indices of the effect shapes of a list, ascending, from index i on.
RECURSIVE EffectPositions(_, _)
EffectPositions(s, i) ==
    IF i > Len(s) THEN <<>>
    ELSE (IF IsEffect(s[i]) THEN <<i>> ELSE <<>>) \o EffectPositions(s, i + 1)

\* Whether a drawing command changes pixels of `rect`: an effect changes the
\* pixels of its rectangle, a line those along the segment.
Reaches(cmd, rect) ==
    IF cmd.kind = "Effect"
    THEN /\ cmd.rect.min.x < rect.max.x /\ rect.min.x < cmd.rect.max.x
         /\ cmd.rect.min.y < rect.max.y /\ rect.min.y < cmd.rect.max.y
    ELSE IF "start" \in DOMAIN cmd
    THEN /\ Min(cmd.start.x, cmd.end.x) <= rect.max.x
         /\ rect.min.x <= Max(cmd.start.x, cmd.end.x)
         /\ Min(cmd.start.y, cmd.end.y) <= rect.max.y
         /\ rect.min.y <= Max(cmd.start.y, cmd.end.y)
    ELSE TRUE

\* What an image holds inside `rect`: the commands that reach it, in order.
Within(cmds, rect) == SelectSeq(cmds, LAMBDA c : Reaches(c, rect))

\* C14: every committed effect painted with a texture is computed from the
\* image that holds exactly the shapes before it in the list, as
\* render_full_image computes it for the export.
C14_EffectsInListOrder ==
    \A k \in 1..Len(shown) :
        ( /\ shown[k].version = shapes_version
          /\ IsSome(shown[k].texture)
          /\ k <= Len(EffectPositions(shapes, 1)) ) =>
            Within(DrawCommands(shown[k].base),
                   normalize_rect(from_two_pos(shown[k].effect.start,
                                               shown[k].effect.end)))
              = Within(DrawCommands(SubSeq(shapes, 1,
                                           EffectPositions(shapes, 1)[k] - 1)),
                       normalize_rect(from_two_pos(shown[k].effect.start,
                                                   shown[k].effect.end)))

----------------------------------------------------------------------------
(* SpecPixels: apply_blur or apply_pixelate is called once on a loaded     *)
(* buffer, with a rectangle inside, across or beyond its edges.            *)

editor == <<tool, last_draw_tool, color, size, shapes, active_shape,
            redo_stack, selection, selection_drag, status, tool_button_rects,
            tool_controls_rect, text_input, text_editor_rect, shapes_version,
            effect_previews, file_dialog, file_dialog_open, closed, exported,
            primary_down, shown, trail, noop>>

\* Rectangles as from_two_pos gives them, and the same with min and max
\* exchanged (both effects normalise).  Coordinates are in half pixels:
\* horizontally one beyond each edge, every whole pixel and one between two
\* pixels; vertically the whole buffer, beyond it on both sides, inside it,
\* empty, and its lower part up to beyond the edge.
Rects ==
    LET Coords == {-2, 1} \cup {2 * k : k \in 0..(BufWidth + 1)}
        Extents == {<<0, 2 * BufHeight>>, <<-2, 2 * BufHeight + 2>>, <<1, 4>>,
                    <<2, 2>>, <<4, 2 * BufHeight + 2>>}
    IN UNION {{[min |-> pos2(a, v[1]), max |-> pos2(b, v[2])],
               [min |-> pos2(b, v[2]), max |-> pos2(a, v[1])]} :
                    a \in Coords, b \in Coords, v \in Extents}

\* Block sizes and radii: the small ones, and those around 2^31 and 2^32.
Params ==
    {Word(n) : n \in 0..MaxParam}
    \cup {Word(I32Max), <<Limb \div 2, 0>>, <<Limb - 1, Limb - 1>>}

\* Arithmetic overflow panics in a build with overflow checks and wraps in
\* one without.
Builds == {"checked", "wrapping"}

LoadImage ==
    /\ fx.fn = "none"
    /\ \E img \in Images : fx' = [fn |-> "load", img |-> img]
    /\ UNCHANGED <<editor, proc, daemon>>

Blur ==
    /\ fx.fn = "load"
    /\ \E rect \in Rects, radius \in Params, build \in Builds :
        fx' = [fn |-> "blur", img |-> fx.img, rect |-> rect, param |-> radius,
               result |-> apply_blur(fx.img, rect, radius, build)]
    /\ UNCHANGED <<editor, proc, daemon>>

Pixelate ==
    /\ fx.fn = "load"
    /\ \E rect \in Rects, block \in Params, build \in Builds :
        fx' = [fn |-> "pixelate", img |-> fx.img, rect |-> rect,
               param |-> block,
               result |-> apply_pixelate(fx.img, rect, block, build)]
    /\ UNCHANGED <<editor, proc, daemon>>

PixelNext ==
    \/ LoadImage
    \/ Blur
    \/ Pixelate

SpecPixels == Init /\ [][PixelNext]_vars

\* The pixels of the region with at least `radius` pixels of the region on
\* every side, radius as the call uses it (at least 1).
Interior(reg, radius) ==
    {p \in region_pixels(reg) :
        /\ ~word_lt(Word(p[1] - reg.min_x), word_max(radius, Word(1)))
        /\ ~word_lt(Word(reg.max_x - 1 - p[1]), word_max(radius, Word(1)))
        /\ ~word_lt(Word(p[2] - reg.min_y), word_max(radius, Word(1)))
        /\ ~word_lt(Word(reg.max_y - 1 - p[2]), word_max(radius, Word(1)))}

\* C15: whatever the rectangle and the radius, apply_blur samples and
\* writes only pixels of the buffer, and a pixel of the region that lies in
\* a corner of the buffer is averaged over fewer samples than a pixel with
\* at least `radius` pixels of the region on every side.
C15_BlurStaysInside ==
    fx.fn = "blur" =>
        /\ \A p \in DOMAIN fx.result.windows :
                WindowInside(fx.result.windows[p])
        /\ fx.result.writes \subseteq Cells
        /\ \A c \in ({0, BufWidth - 1} \X {0, BufHeight - 1}) \cap fx.result.writes :
            \A i \in Interior(effect_region(fx.rect, TRUE), fx.param)
                        \cap fx.result.writes :
                Samples(fx.result.windows[c]) < Samples(fx.result.windows[i])

\* A rectangle that reaches beyond the buffer's edge was blurred: a corner
\* pixel and an interior pixel were both averaged, and the buffer changed.
C15_Witness ==
    /\ fx.fn = "blur"
    /\ fx.rect.min.x < 0
    /\ fx.rect.max.y > 2 * BufHeight
    /\ ~fx.result.panicked
    /\ ({0, BufWidth - 1} \X {0, BufHeight - 1}) \cap fx.result.writes /= {}
    /\ Interior(effect_region(fx.rect, TRUE), fx.param) \cap fx.result.writes /= {}
    /\ fx.result.img /= fx.img

----------------------------------------------------------------------------
(* Rendering and the rest of the editor (app.rs 1047-1102), checked in     *)
(* SpecEffects.                                                            *)

\* C17: the image render_full_image returns is the same whatever the tool,
\* the colour, the size, the redo stack, the preview cache and the status
\* are: with the committed list as it is, it is the image of the editor with
\* all of these replaced.
C17_RenderReadsShapesOnly ==
    \A t \in Tool :
        render_full_image([Self EXCEPT !.tool = t,
                                       !.color = [rgb |-> "0000ff", a |-> 128],
                                       !.size = @ + 1,
                                       !.redo_stack = <<>>,
                                       !.effect_previews = <<>>,
                                       !.status = Some("Saved")])
            = render_full_image(Self)

\* An image with something drawn on it is rendered while the redo stack and
\* the preview cache hold entries and a drawing tool is selected.
C17_Witness ==
    /\ render_full_image(Self).pixels /= <<>>
    /\ redo_stack /= <<>>
    /\ effect_previews /= <<>>
    /\ tool /= "Select"

----------------------------------------------------------------------------
(* The version counter (app.rs 895-925), checked in SpecEffects.           *)

\* A history call changed the version and emptied the preview cache.
Bumped(before, after) ==
    /\ after.shapes_version /= before.shapes_version
    /\ after.effect_previews = <<>>

\* A history call left the list, the redo stack, the version and the cache
\* as they were.
Kept(before, after) ==
    /\ after.shapes = before.shapes
    /\ after.redo_stack = before.redo_stack
    /\ after.shapes_version = before.shapes_version
    /\ after.effect_previews = before.effect_previews

\* C18: in every state, a commit, an undo of a non-empty list, a redo from a
\* non-empty redo stack and a clear of a non-empty list change the version
\* and empty the cache, while undo and clear of an empty list and redo from
\* an empty redo stack keep list, redo stack, version and cache; and over
\* every frame the version changes exactly when a history call took effect,
\* and list and redo stack change only if the version does.
C18_VersionTracksMutations ==
    [][ /\ \A t \in Tool \ {"Select", "Text"} :
                Bumped(Self, push_shape(Self, new_shape(Self, t, pos2(0, 0))))
        /\ IF shapes /= <<>>
           THEN Bumped(Self, pop_shape(Self)) /\ Bumped(Self, clear_shapes(Self))
           ELSE Kept(Self, pop_shape(Self)) /\ Kept(Self, clear_shapes(Self))
        /\ IF redo_stack /= <<>>
           THEN Bumped(Self, redo_shape(Self))
           ELSE Kept(Self, redo_shape(Self))
        /\ (shapes_version' /= shapes_version) <=> (trail' /= trail)
        /\ (shapes_version' = shapes_version) =>
                (shapes' = shapes /\ redo_stack' = redo_stack) ]_vars

\* An undo found the list empty while the cache held a preview, after
\* earlier history calls had taken effect.
C18_Witness ==
    /\ "pop" \in noop
    /\ effect_previews /= <<>>
    /\ trail /= <<>>
    /\ shapes_version > 0

----------------------------------------------------------------------------
(* The redo stack (app.rs 895-925), checked in SpecHistory.                *)

\* C19: the redo stack holds something only while the last call that
\* changed the committed list was an undo or a redo; a redo right after an
\* undo re-applies the shape that undo removed and gives back the list the
\* undo found; and after two undos and a redo the shape removed first is the
\* next to be re-applied.
C19_RedoStackDiscipline ==
    /\ redo_stack /= <<>> => LastOp \in {"pop", "redo"}
    /\ ( /\ Len(trail) >= 2
         /\ trail[Len(trail) - 1].op = "pop"
         /\ trail[Len(trail)].op = "redo" ) =>
            /\ trail[Len(trail)].shape = trail[Len(trail) - 1].shape
            /\ shapes = trail[Len(trail) - 1].before
    /\ ( /\ Len(trail) >= 3
         /\ trail[Len(trail) - 2].op = "pop"
         /\ trail[Len(trail) - 1].op = "pop"
         /\ trail[Len(trail)].op = "redo" ) =>
            /\ redo_stack /= <<>>
            /\ Some(Last(redo_stack)) = trail[Len(trail) - 2].shape

\* Two different shapes were undone and one of them redone; the other is
\* still on the redo stack.
C19_Witness ==
    /\ Len(trail) >= 3
    /\ trail[Len(trail) - 2].op = "pop"
    /\ trail[Len(trail) - 1].op = "pop"
    /\ trail[Len(trail)].op = "redo"
    /\ trail[Len(trail) - 2].shape /= trail[Len(trail) - 1].shape
    /\ redo_stack /= <<>>

----------------------------------------------------------------------------
(* The Enter key (app.rs 1258-1272), checked in Spec.                      *)

\* What Enter did: the editor after a frame with Enter pressed (`entered`)
\* against the editor after the same frame without it (`idle`).
EnterEffect(idle, entered) ==
    IF IsSome(idle.text_input)
    THEN /\ entered.text_input = None
         /\ entered.tool = idle.tool
         /\ IF trim(Unwrap(idle.text_input).text) /= ""
            THEN /\ Len(entered.shapes) = Len(idle.shapes) + 1
                 /\ Front(entered.shapes) = idle.shapes
                 /\ Last(entered.shapes).kind = "Text"
                 /\ Last(entered.shapes).text = Unwrap(idle.text_input).text
                 /\ Last(entered.shapes).pos = Unwrap(idle.text_input).pos
            ELSE entered.shapes = idle.shapes
    ELSE IF idle.tool = "Select" /\ IsSome(idle.selection)
    THEN entered = [idle EXCEPT !.tool = idle.last_draw_tool]
    ELSE entered = idle

\* C20: in every state, Enter with a text input pending removes the input,
\* keeps the tool and appends one Text shape exactly if the text is not
\* blank; with none pending it sets the tool to last_draw_tool if the tool
\* is Select and a selection exists, and otherwise does nothing.
C20_EnterKey ==
    EnterEffect(update(Self, NoInput),
                update(Self, [NoInput EXCEPT !.enter = TRUE]))

\* Enter has committed a pending text: the input is gone and the newest
\* shape is the Text.
C20_Witness ==
    /\ text_input = None
    /\ LastOp = "push"
    /\ shapes /= <<>>
    /\ Last(shapes).kind = "Text"

----------------------------------------------------------------------------
(* The Escape key (app.rs 1274-1281), checked in Spec.                     *)

\* What Escape did: the editor after a frame with Escape pressed
\* (`escaped`) against the editor after the same frame without it (`idle`).
EscapeEffect(idle, escaped) ==
    IF IsSome(idle.text_input)
    THEN escaped = [idle EXCEPT !.text_input = None]
    ELSE escaped = [idle EXCEPT !.closed = TRUE]

\* C21: in every state, Escape with a text input pending removes the input
\* and changes nothing else (no shape is committed, the session stays
\* open); with none pending it closes the session.
C21_EscapeKey ==
    EscapeEffect(update(Self, NoInput),
                 update(Self, [NoInput EXCEPT !.esc = TRUE]))

\* Escape has closed a session in which shapes had been committed and no
\* text was pending.
C21_Witness ==
    /\ closed
    /\ text_input = None
    /\ shapes /= <<>>

----------------------------------------------------------------------------
(* SpecMain: one run of main() (main.rs 54-121).  proc.pc is the position  *)
(* in main; proc.files the paths written with image.save; proc.viewer      *)
(* whether run_viewer was called; proc.result what main returned.          *)

\* The commands clap can hand to main; no subcommand is `gui` with the
\* defaults (main.rs 61).
Commands ==
    {[kind |-> "Gui", delay |-> d, path |-> p, edit |-> FALSE] :
        d \in 0..MaxDelay, p \in {None, Some("cap.png")}}
    \cup {[kind |-> "Full", delay |-> d, path |-> p, edit |-> e] :
        d \in 0..MaxDelay, p \in {None, Some("cap.png")}, e \in BOOLEAN}
    \cup {[kind |-> k, delay |-> 0, path |-> None, edit |-> FALSE] :
        k \in {"Diagnose", "Daemon"}}

\* main returns with `result`.
main_returns(p, result) == [p EXCEPT !.pc = "done", !.result = Some(result)]

\* A capture whose error is dropped and which goes on without it, for
\* comparison.
capture_step_ignoring_error(p, outcome) ==
    [p EXCEPT !.capture = outcome, !.pc = "save"]

\* run_async(&rt, capture_fullscreen())? (main.rs 76, 98): outcome is "ok"
\* or the CaptureError the portal call gave.
capture_step(p, outcome) ==
    IF outcome = "ok" THEN [p EXCEPT !.capture = "ok", !.pc = "save"]
    ELSE main_returns([p EXCEPT !.capture = outcome], outcome)

\* The tokio runtime is built, or main returns CaptureError::Io (main.rs
\* 55-58).
BuildRuntime ==
    /\ proc.pc = "start"
    /\ \E ok \in BOOLEAN :
        proc' = IF ok THEN [proc EXCEPT !.pc = "parse"]
                ELSE main_returns(proc, "Io")
    /\ UNCHANGED <<editor, fx, daemon>>

\* Cli::parse and the match on the command (main.rs 60-66, 115-117); the
\* diagnose and daemon commands are not followed further.
ParseCli ==
    /\ proc.pc = "parse"
    /\ \E c \in Commands :
        proc' = IF c.kind \in {"Gui", "Full"}
                THEN [proc EXCEPT !.command = Some(c), !.pc = "delay"]
                ELSE main_returns([proc EXCEPT !.command = Some(c)], "Ok")
    /\ UNCHANGED <<editor, fx, daemon>>

\* The sleep before the capture (main.rs 72-74, 94-96).
Delay ==
    /\ proc.pc = "delay"
    /\ proc' = [proc EXCEPT !.slept = Unwrap(proc.command).delay,
                            !.pc = "capture"]
    /\ UNCHANGED <<editor, fx, daemon>>

Capture ==
    /\ proc.pc = "capture"
    /\ \E outcome \in {"ok", "Portal", "Io"} :
        proc' = capture_step(proc, outcome)
    /\ UNCHANGED <<editor, fx, daemon>>

\* The save to --path, when given (main.rs 78-83, 99-104).
SavePath ==
    /\ proc.pc = "save"
    /\ \E ok \in BOOLEAN :
        proc' = IF ~IsSome(Unwrap(proc.command).path)
                THEN [proc EXCEPT !.pc = "finish"]
                ELSE IF ok
                THEN [proc EXCEPT !.files = @ \cup {Unwrap(Unwrap(proc.command).path)},
                                  !.pc = "finish"]
                ELSE main_returns(proc, "Io")
    /\ UNCHANGED <<editor, fx, daemon>>

\* The end of the two arms (main.rs 85-87, 105-113): the editor, the
\* default file, or nothing.
Finish ==
    /\ proc.pc = "finish"
    /\ \E ok \in BOOLEAN :
        proc' =
            IF \/ Unwrap(proc.command).kind = "Gui"
                    /\ ~IsSome(Unwrap(proc.command).path)
               \/ Unwrap(proc.command).kind = "Full"
                    /\ Unwrap(proc.command).edit
            THEN main_returns([proc EXCEPT !.viewer = TRUE],
                              IF ok THEN "Ok" ELSE "Io")
            ELSE IF Unwrap(proc.command).kind = "Full"
                    /\ ~IsSome(Unwrap(proc.command).path)
            THEN IF ok
                 THEN main_returns([proc EXCEPT !.files = @ \cup {"screenshot.png"}],
                                   "Ok")
                 ELSE main_returns(proc, "Io")
            ELSE main_returns(proc, "Ok")
    /\ UNCHANGED <<editor, fx, daemon>>

MainNext ==
    \/ BuildRuntime
    \/ ParseCli
    \/ Delay
    \/ Capture
    \/ SavePath
    \/ Finish

SpecMain == Init /\ [][MainNext]_vars

\* C22: once the capture of a gui or full command has returned an error,
\* run_viewer has not been and is never called, no file has been or is ever
\* written, and main has returned that error.
C22_CaptureFailureAborts ==
    proc.capture \in {"Portal", "Io"} =>
        /\ Unwrap(proc.command).kind \in {"Gui", "Full"}
        /\ ~proc.viewer
        /\ proc.files = {}
        /\ proc.pc = "done"
        /\ proc.result = Some(proc.capture)

\* The capture of `full --edit -p cap.png` failed in the portal.
C22_Witness ==
    /\ proc.capture = "Portal"
    /\ Unwrap(proc.command).kind = "Full"
    /\ Unwrap(proc.command).edit
    /\ IsSome(Unwrap(proc.command).path)
    /\ proc.pc = "done"

----------------------------------------------------------------------------
(* SpecHandles: the Select tool on pointer positions in a strip along the  *)
(* top of the image whose rows, and whose first columns, lie closer        *)
(* together than the handle radius: a region can be smaller than its own   *)
(* corner handles, or wide, low and free to move up and down.              *)

HandleEnv ==
    [positions |-> {pos2(x, j * (Step - HandleRadius)) :
                        x \in {i * (Step - HandleRadius) : i \in 0..ImageCells}
                              \cup {i * Step : i \in 0..ImageCells},
                        j \in 0..ImageCells},
     regions |-> {}, drag |-> FALSE, tools |-> {"Select"}, texts |-> {},
     shapes |-> 0, versions |-> 0]

HandleNext ==
    \/ PointerPress(HandleEnv)
    \/ PointerHold(HandleEnv)
    \/ PointerRelease(HandleEnv)

SpecHandles == Init /\ [][HandleNext]_vars

CornerNames == {"TopLeft", "TopRight", "BottomLeft", "BottomRight"}

CornerAt(rect, c) ==
    CASE c = "TopLeft" -> rect.min
      [] c = "TopRight" -> pos2(rect.max.x, rect.min.y)
      [] c = "BottomLeft" -> pos2(rect.min.x, rect.max.y)
      [] c = "BottomRight" -> rect.max

WithinHandle(rect, c, pos) ==
    LET d == Sub(pos, CornerAt(rect, c))
    IN d.x * d.x + d.y * d.y <= HandleRadius * HandleRadius

\* The editor after a primary press at `pos` reaches the selection handler.
PressedAt(pos) ==
    handle_selection_input(Self,
        Pointer([where |-> "image", over |-> "none", pos |-> pos], TRUE, TRUE, FALSE),
        pos)

\* C23 (as stated): a press with a selection of at least 1 px by 1 px
\* present starts Resizing of any
\* corner whose handle the point is within, even inside the region; failing
\* that, a point inside the region starts Moving with offset = point -
\* rect.min and leaves the rectangle alone; any other point starts Creating
\* and replaces the selection by a zero-size rectangle at the point.
C23_HitTestPriority ==
    (~primary_down /\ IsSome(selection) /\ C6_NoDegenerateSelectionWithButtonUp) =>
        \A pos \in HandleEnv.positions :
            LET rect == Unwrap(selection).rect
                after == PressedAt(pos)
                near == {c \in CornerNames : WithinHandle(rect, c, pos)}
            IN /\ \A c \in near :
                    /\ after.selection_drag = Some([drag |-> "Resizing", corner |-> c])
                    /\ after.selection = selection
               /\ (near = {} /\ contains(rect, pos)) =>
                    /\ after.selection_drag =
                            Some([drag |-> "Moving", offset |-> Sub(pos, rect.min)])
                    /\ after.selection = selection
               /\ (near = {} /\ ~contains(rect, pos)) =>
                    /\ after.selection_drag = Some([drag |-> "Creating", start |-> pos])
                    /\ after.selection = Some([rect |-> from_two_pos(pos, pos)])

\* The editor after a frame in which the held pointer is at `pos` on the
\* image.
HeldAt(pos) ==
    update(Self, [NoInput EXCEPT !.ptr =
        Pointer([where |-> "image", over |-> "none", pos |-> pos], FALSE, TRUE, FALSE)])

MovingDrag ==
    /\ tool = "Select" /\ primary_down /\ ~closed
    /\ IsSome(selection) /\ IsSome(selection_drag)
    /\ Unwrap(selection_drag).drag = "Moving"

\* C24: a frame of a Moving drag, wherever the pointer is, leaves the
\* selection's width and height as they were and the rectangle inside the
\* image; on each axis where the rectangle does not end up against an edge
\* of the image, rect.min = pointer - grab offset.
C24_MovingPreservesSize ==
    MovingDrag =>
        \A pos \in HandleEnv.positions :
            LET before == Unwrap(selection).rect
                offset == Unwrap(selection_drag).offset
                after == HeldAt(pos)
            IN /\ after.selection_drag = selection_drag
               /\ IsSome(after.selection)
               /\ LET r == Unwrap(after.selection).rect
                  IN /\ width(r) = width(before)
                     /\ height(r) = height(before)
                     /\ 0 <= r.min.x /\ r.max.x <= ImageWidth
                     /\ 0 <= r.min.y /\ r.max.y <= ImageHeight
                     /\ (0 < r.min.x /\ r.max.x < ImageWidth) => r.min.x = pos.x - offset.x
                     /\ (0 < r.min.y /\ r.max.y < ImageHeight) => r.min.y = pos.y - offset.y

\* A region is being moved; one pointer position takes it to where the
\* pointer asks on one axis, another would take it outside the image and is
\* clamped.
C24_Witness ==
    /\ MovingDrag
    /\ \E pos \in HandleEnv.positions :
        LET r == Unwrap(HeldAt(pos).selection).rect
        IN /\ r /= Unwrap(selection).rect
           /\ 0 < r.min.y /\ r.max.y < ImageHeight
    /\ \E pos \in HandleEnv.positions :
        LET r == Unwrap(HeldAt(pos).selection).rect
        IN r.min.y /= pos.y - Unwrap(selection_drag).offset.y

\* C25 (as stated): selection_drag is non-empty only while the primary
\* button is held; once the button is up, wherever the release arrived and
\* whatever tool is current, selection_drag is None.
C25_DragOnlyWhileHeld == IsSome(selection_drag) => primary_down

Opposite(c) ==
    CASE c = "TopLeft" -> "BottomRight"
      [] c = "TopRight" -> "BottomLeft"
      [] c = "BottomLeft" -> "TopRight"
      [] c = "BottomRight" -> "TopLeft"

IsCornerOf(p, sel) ==
    /\ IsSome(sel)
    /\ \E c \in CornerNames : CornerAt(Unwrap(sel).rect, c) = p

PointerFrame(e, pos, pressed) ==
    update(e, [NoInput EXCEPT !.ptr =
        Pointer([where |-> "image", over |-> "none", pos |-> pos],
                pressed, TRUE, FALSE)])

\* `anchor` is a corner of the selection after one more frame of the drag of
\* `e`, and after two, wherever the pointer is held.
AnchorKept(e, anchor) ==
    \A p1 \in SelectEnv.positions :
        /\ IsCornerOf(anchor, PointerFrame(e, p1, FALSE).selection)
        /\ \A p2 \in SelectEnv.positions :
            IsCornerOf(anchor,
                PointerFrame(PointerFrame(e, p1, FALSE), p2, FALSE).selection)

ResizeStarted(e) ==
    IsSome(e.selection_drag) /\ Unwrap(e.selection_drag).drag = "Resizing"

\* C26 (as stated): when a press on a corner handle of a selection of at
\* least 1 px by 1 px starts a Resizing drag, the corner diagonally opposite
\* the grabbed one is still a corner of the selection after every following
\* frame of the drag, wherever the pointer goes.
C26_ResizeAnchorsOpposite ==
    (tool = "Select" /\ ~primary_down /\ ~closed /\ IsSome(selection)
        /\ C6_NoDegenerateSelectionWithButtonUp) =>
        \A p0 \in SelectEnv.positions :
            ResizeStarted(PointerFrame(Self, p0, TRUE)) =>
                AnchorKept(PointerFrame(Self, p0, TRUE),
                    CornerAt(Unwrap(selection).rect,
                        Opposite(Unwrap(PointerFrame(Self, p0, TRUE).selection_drag).corner)))

----------------------------------------------------------------------------
(* The blur of the live preview (app.rs 1006-1010) beside the blur in      *)
(* place, checked in SpecPixels.                                           *)

\* crop_image_exact (image_ops.rs 4-32): the pixels of the rectangle as a
\* buffer of their own with its origin at the rectangle's top-left, None
\* when the rectangle holds no pixel.
crop_image_exact(img, rect) ==
    LET min_x == Clamp(floor(rect.min.x), 0, BufWidth)
        min_y == Clamp(floor(rect.min.y), 0, BufHeight)
        max_x == Clamp(ceil(rect.max.x), 0, BufWidth)
        max_y == Clamp(ceil(rect.max.y), 0, BufHeight)
    IN IF max_x <= min_x \/ max_y <= min_y THEN None
       ELSE Some([p \in (0..(max_x - min_x - 1)) \X (0..(max_y - min_y - 1)) |->
                    img[<<min_x + p[1], min_y + p[2]>>]])

\* apply_blur_full (effects.rs 105-111): apply_blur over the whole of img.
apply_blur_full(img, radius, build) ==
    apply_blur(img,
               [min |-> pos2(0, 0),
                max |-> pos2(2 * Cardinality({p[1] : p \in DOMAIN img}),
                             2 * Cardinality({p[2] : p \in DOMAIN img}))],
               radius, build)

\* The pixels a sample window holds.
WindowPixels(w) == IF WindowEmpty(w) THEN {} ELSE Block(w.x0, w.x1 + 1, w.y0, w.y1 + 1)

\* The pixels of the region within r of p in both directions.
BoxInRegion(p, r, reg) ==
    {q \in region_pixels(reg) :
        /\ p[1] - r <= q[1] /\ q[1] <= p[1] + r
        /\ p[2] - r <= q[2] /\ q[2] <= p[2] + r}

\* C27 (as stated): for a radius below 2^16, apply_blur averages, for every
\* pixel of the rectangle, exactly the pixels of the (2r+1) x (2r+1) box
\* around it that lie inside the rectangle; and the rectangle's pixels
\* after the call are those of apply_blur_full applied to the rectangle
\* cropped out of the buffer.
C27_BlurWindowClippedToRect ==
    (fx.fn = "blur" /\ ~fx.result.panicked /\ fx.param[1] = 0) =>
        /\ \A p \in fx.result.writes :
                WindowPixels(fx.result.windows[p])
                    = BoxInRegion(p, Max(to_int(fx.param), 1),
                                  effect_region(fx.rect, TRUE))
        /\ IsSome(crop_image_exact(fx.img, normalize_rect(fx.rect))) =>
            \A p \in region_pixels(effect_region(fx.rect, TRUE)) :
                fx.result.img[p] =
                    apply_blur_full(
                        Unwrap(crop_image_exact(fx.img, normalize_rect(fx.rect))),
                        fx.param, "wrapping"
                    ).img[<<p[1] - effect_region(fx.rect, TRUE).min_x,
                            p[2] - effect_region(fx.rect, TRUE).min_y>>]

\* C28: after apply_blur every pixel it wrote lies in the clipped rectangle
\* and holds, channel by channel, the truncated mean of the values its
\* sample window had before the call, also where the window holds pixels
\* the call had already written; every other pixel is as it was.
C28_BlurReadsSnapshot ==
    fx.fn = "blur" =>
        /\ fx.result.writes \subseteq region_pixels(effect_region(fx.rect, TRUE))
        /\ \A p \in Cells :
            fx.result.img[p] =
                IF p \in fx.result.writes
                THEN Average(fx.img, WindowPixels(fx.result.windows[p]))
                ELSE fx.img[p]

\* A pixel was averaged over a window that holds a pixel written earlier in
\* the same pass with a changed value, and the buffer has pixels outside
\* the rectangle.
C28_Witness ==
    /\ fx.fn = "blur"
    /\ ~fx.result.panicked
    /\ Cells \ region_pixels(effect_region(fx.rect, TRUE)) /= {}
    /\ \E p, q \in fx.result.writes :
        /\ Before(q, p)
        /\ q \in WindowPixels(fx.result.windows[p])
        /\ fx.result.img[q] /= fx.img[q]

\* The cell of the partition of the region into block x block cells,
\* anchored at the region's top-left, that holds p; block is a u32, and one
\* of 2^16 or more is larger than any buffer here.
CellOf(p, reg, block) ==
    {q \in region_pixels(reg) :
        block[1] = 0 =>
            /\ (q[1] - reg.min_x) \div block[2] = (p[1] - reg.min_x) \div block[2]
            /\ (q[2] - reg.min_y) \div block[2] = (p[2] - reg.min_y) \div block[2]}

----------------------------------------------------------------------------
(* The committed list, checked in SpecEffects.                             *)

\* C30: a frame leaves the committed list as it is, or appends one shape to
\* it, or removes its last shape, or empties it, so the shapes that stay
\* are never altered; and a frame that alters the active shape leaves the
\* committed list as it is.
C30_CommittedShapesImmutable ==
    [][/\ \/ shapes' = shapes
          \/ /\ Len(shapes') = Len(shapes) + 1
             /\ SubSeq(shapes', 1, Len(shapes)) = shapes
          \/ /\ shapes /= <<>>
             /\ shapes' = SubSeq(shapes, 1, Len(shapes) - 1)
          \/ shapes' = <<>>
       /\ (IsSome(active_shape) /\ IsSome(active_shape')
            /\ active_shape' /= active_shape) => shapes' = shapes]_vars

\* Two shapes were committed and the second undone; with one shape
\* committed and one to redo, an effect is being dragged out.
C30_Witness ==
    /\ Len(shapes) = 1
    /\ redo_stack /= <<>>
    /\ IsSome(active_shape)
    /\ Unwrap(active_shape).kind = "Effect"
    /\ Unwrap(active_shape).end /= Unwrap(active_shape).start

----------------------------------------------------------------------------
(* SpecBeyond: the event source reports pointer positions that, scaled to  *)
(* image pixels, fall beyond the image on either side; the user selects,   *)
(* drags arrows and places labels with such positions.                     *)

BeyondShapes == 1
BeyondVersions == 2

BeyondEnv ==
    [positions |-> {pos2(-Step, -Step), pos2(Step, Step),
                    pos2(ImageWidth + Step, ImageHeight + Step)},
     regions |-> {}, drag |-> TRUE, tools |-> {"Select", "Arrow", "Text"},
     texts |-> {"A"}, shapes |-> BeyondShapes, versions |-> BeyondVersions]

BeyondNext ==
    \/ PointerPress(BeyondEnv)
    \/ PointerHold(BeyondEnv)
    \/ PointerRelease(BeyondEnv)
    \/ ClickTool(BeyondEnv)
    \/ KeyEnter(BeyondEnv)
    \/ TypeText(BeyondEnv)

SpecBeyond == Init /\ [][BeyondNext]_vars

InImage(p) ==
    /\ 0 <= p.x /\ p.x <= ImageWidth
    /\ 0 <= p.y /\ p.y <= ImageHeight

\* The points a shape stores.
PointsOf(shape) ==
    CASE shape.kind = "Stroke" -> {shape.points[i] : i \in DOMAIN shape.points}
      [] shape.kind = "CircleCount" -> {shape.center, shape.pointer}
      [] shape.kind = "Text" -> {shape.pos}
      [] OTHER -> {shape.start, shape.end}

\* C31: every point stored in a committed shape, the active shape, the
\* pending text input or the selection lies within [0, width] x [0, height],
\* wherever the pointer events were.
C31_CoordinatesClamped ==
    /\ \A i \in DOMAIN shapes : \A p \in PointsOf(shapes[i]) : InImage(p)
    /\ IsSome(active_shape) => \A p \in PointsOf(Unwrap(active_shape)) : InImage(p)
    /\ IsSome(text_input) => InImage(Unwrap(text_input).pos)
    /\ IsSome(selection) =>
        /\ InImage(Unwrap(selection).rect.min)
        /\ InImage(Unwrap(selection).rect.max)

\* An arrow dragged from beyond the top-left corner to beyond the
\* bottom-right one is committed from corner to corner, a label is pending
\* at the top-left corner after a press beyond it, and the selection, drawn
\* with positions beyond the image, is the whole image.
C31_Witness ==
    /\ \E i \in DOMAIN shapes :
        /\ shapes[i].kind = "Arrow"
        /\ shapes[i].start = pos2(0, 0)
        /\ shapes[i].end = pos2(ImageWidth, ImageHeight)
    /\ IsSome(text_input)
    /\ Unwrap(text_input).pos = pos2(0, 0)
    /\ IsSome(selection)
    /\ Unwrap(selection).rect = image_rect

----------------------------------------------------------------------------
(* The rectangles of the palette and the parameter panel, checked in       *)
(* SpecSelect.                                                             *)

\* C32 (as stated): whenever there is no selection, the list of tool-button
\* rectangles is empty and the parameter-panel rectangle is None.
C32_NoRectsWithoutSelection ==
    ~IsSome(selection) =>
        /\ tool_button_rects = 0
        /\ tool_controls_rect = None

----------------------------------------------------------------------------
(* draw_line (draw.rs 10-37) on a buffer of the pixel section.  Endpoints  *)
(* are counted in half pixels, sizes in whole ones.                        *)

Abs(n) == IF n < 0 THEN -n ELSE n

\* f32::round of the fraction n / d, d > 0: to the nearest integer, halves
\* away from zero.
round(n, d) ==
    IF n >= 0 THEN (2 * n + d) \div (2 * d)
    ELSE -((2 * (-n) + d) \div (2 * d))

\* The centre of the i-th stamp: start + (end - start) * i / steps, rounded.
line_centre(start, end, steps, i) ==
    <<round(start.x * steps + (end.x - start.x) * i, 2 * steps),
      round(start.y * steps + (end.y - start.y) * i, 2 * steps)>>

\* The square of half-width radius around the centre c.
Stamp(c, radius) ==
    {p \in ((c[1] - radius)..(c[1] + radius)) \X ((c[2] - radius)..(c[2] + radius)) : TRUE}

\* draw_line: the buffer after the call, the stamp centres in order, the
\* half-width of the stamp and the pixels written.
draw_line(img, start, end, rgba, width_px) ==
    LET radius == (Max(width_px, 1) + 1) \div 2
        steps == Max(Max(Abs(end.x - start.x), Abs(end.y - start.y)), 2) \div 2
        centres == [k \in 1..(steps + 1) |-> line_centre(start, end, steps, k - 1)]
        writes == UNION {Stamp(centres[k], radius) \cap DOMAIN img : k \in DOMAIN centres}
    IN [img |-> [p \in DOMAIN img |-> IF p \in writes THEN rgba ELSE img[p]],
        centres |-> centres, radius |-> radius, writes |-> writes]

LineCoords == (-2)..(2 * PixelCells + 1)
MaxLineSize == 3

DrawLine ==
    /\ fx.fn = "load"
    /\ \E sx \in LineCoords, ex \in LineCoords, sy \in {0, 1}, ey \in LineCoords,
          sz \in 0..MaxLineSize :
        fx' = [fn |-> "line", img |-> fx.img, start |-> pos2(sx, sy),
               end |-> pos2(ex, ey), size |-> sz,
               result |-> draw_line(fx.img, pos2(sx, sy), pos2(ex, ey),
                                    Rgba(1), sz)]
    /\ UNCHANGED <<editor, proc, daemon>>

LineNext ==
    \/ LoadImage
    \/ DrawLine

SpecLines == Init /\ [][LineNext]_vars

\* C33 (as stated, with the count of centres read as
\* floor(max(|dx|, |dy|, 1)) + 1 and "at" an endpoint as at its rounded
\* pixel): draw_line stamps squares 2 * ceil(max(size, 1) / 2) + 1 wide at
\* that many centres, the first at the start point, the last at the end
\* point, consecutive centres differ by at most 1 in x and in y, and only
\* pixels of the buffer are written.
C33_ThickLineGapFree ==
    fx.fn = "line" =>
        LET c == fx.result.centres
        IN /\ 2 * fx.result.radius + 1 = 2 * ((Max(fx.size, 1) + 1) \div 2) + 1
           /\ Len(c) = Max(Max(Abs(fx.end.x - fx.start.x),
                               Abs(fx.end.y - fx.start.y)), 2) \div 2 + 1
           /\ c[1] = <<round(fx.start.x, 2), round(fx.start.y, 2)>>
           /\ c[Len(c)] = <<round(fx.end.x, 2), round(fx.end.y, 2)>>
           /\ \A k \in 1..(Len(c) - 1) :
                /\ Abs(c[k + 1][1] - c[k][1]) <= 1
                /\ Abs(c[k + 1][2] - c[k][2]) <= 1
           /\ fx.result.writes \subseteq Cells
           /\ \A p \in Cells : fx.result.img[p] =
                IF \E k \in DOMAIN c : p \in Stamp(c[k], fx.result.radius)
                THEN Rgba(1) ELSE fx.img[p]

----------------------------------------------------------------------------
(* last_draw_tool (app.rs 58-59, 1254-1272), checked in SpecPanels.        *)

\* last_draw_tool is a drawing tool and, after every frame, is the tool if
\* that is a drawing tool and what it was before if the tool is Select.
TracksDrawTool ==
    /\ [](last_draw_tool \in Tool \ {"Select"})
    /\ [][/\ tool' /= "Select" => last_draw_tool' = tool'
          /\ tool' = "Select" => last_draw_tool' = last_draw_tool]_vars

\* C34 (as stated): last_draw_tool is never Select and is the most recent
\* non-Select tool seen at the end of a frame, and Enter pressed while the
\* tool is Select always leaves the Select tool.
C34_EnterAlwaysLeavesSelect ==
    /\ TracksDrawTool
    /\ [](tool = "Select" =>
            update(Self, [NoInput EXCEPT !.enter = TRUE]).tool /= "Select")

\* C34 (amended): last_draw_tool is never Select and is the most recent
\* non-Select tool seen at the end of a frame, and Enter pressed while the
\* tool is Select, a selection exists, no text input is pending and no file
\* dialog is open leaves the Select tool, for last_draw_tool.
C34_LastDrawToolNeverSelect ==
    /\ TracksDrawTool
    /\ []((tool = "Select" /\ IsSome(selection) /\ ~IsSome(text_input)
            /\ ~file_dialog_open) =>
            /\ update(Self, [NoInput EXCEPT !.enter = TRUE]).tool = last_draw_tool
            /\ update(Self, [NoInput EXCEPT !.enter = TRUE]).tool /= "Select")

\* Back in the Select tool with a selection after the Text tool was used:
\* the tool remembered is no longer the initial one.
C34_Witness ==
    /\ tool = "Select"
    /\ IsSome(selection)
    /\ ~IsSome(text_input)
    /\ last_draw_tool = "Text"

----------------------------------------------------------------------------
(* apply_pixelate applied again to its own output, checked in SpecPixels.  *)

\* C35: a second apply_pixelate with the same rectangle and block, when it
\* returns, leaves the image the first one gave as it is, in either build.
C35_PixelateIdempotent ==
    (fx.fn = "pixelate" /\ ~fx.result.panicked) =>
        \A build \in Builds :
            \/ apply_pixelate(fx.result.img, fx.rect, fx.param, build).panicked
            \/ apply_pixelate(fx.result.img, fx.rect, fx.param, build).img
                    = fx.result.img

\* An image whose pixels all differ was pixelated with block 2 over all of
\* its three columns: there are full and clipped cells, and the image changed.
C35_Witness ==
    /\ fx.fn = "pixelate"
    /\ ~fx.result.panicked
    /\ fx.param = Word(2)
    /\ effect_region(fx.rect, FALSE).min_x = 0
    /\ effect_region(fx.rect, FALSE).max_x = BufWidth
    /\ fx.result.img /= fx.img
    /\ \A p, q \in Cells : p /= q => fx.img[p] /= fx.img[q]

(***************************************************************************)
(* The daemon: run_daemon() serves the bus interface and the tray until    *)
(* it is told to stop.  FireshotService::quit runs once per call on the    *)
(* bus, and calls may overlap: the sender of the shutdown channel sits in  *)
(* a Mutex<Option<..>>, taken under the lock and used after it.  The tray  *)
(* pushes its commands on an unbounded channel; the loop's select! takes   *)
(* whichever of its two branches is ready, either one when both are.       *)
(***************************************************************************)
DaemonCommands == {"Gui", "FullEdit", "Quit"}

\* self.shutdown.lock().ok().and_then(|mut s| s.take()) leaving the sender
\* where it was: every call finds one.
quit_take_keeping_sender(d, i) ==
    [d EXCEPT !.calls[i] = IF d.sender THEN "holding" ELSE "returned"]

\* self.shutdown.lock().ok().and_then(|mut s| s.take()): under the lock the
\* call takes the sender out of the Option, and returns at once if there is
\* none.
quit_take(d, i) ==
    IF d.sender
        THEN [d EXCEPT !.sender = FALSE, !.calls[i] = "holding"]
        ELSE [d EXCEPT !.calls[i] = "returned"]

\* let _ = sender.send(()): the value reaches the channel if the receiver is
\* still there, and the result is dropped either way.
quit_send(d, i) ==
    [d EXCEPT !.calls[i] = "returned",
              !.sends = @ + 1,
              !.signal = IF d.pc = "loop" THEN "sent" ELSE @]

\* The branch `Some(cmd) = cmd_rx.recv()` of the loop's select!.
serve_command(d) ==
    LET cmd == Head(d.queue) IN
    IF cmd = "Quit"
        THEN [d EXCEPT !.queue = Tail(@), !.pc = "done", !.ended_by = "Quit"]
        ELSE [d EXCEPT !.queue = Tail(@), !.spawned = @ + 1]

\* The branch `_ = &mut shutdown_rx` of the loop's select!.
see_shutdown(d) == [d EXCEPT !.pc = "done", !.ended_by = "signal"]

\* run_daemon() up to its loop: the channels, the service on the bus and the
\* tray; a connection that cannot be built ends the run with an error.
StartDaemon ==
    /\ daemon.pc = "off"
    /\ \E ok \in BOOLEAN :
        daemon' = IF ok THEN [daemon EXCEPT !.pc = "loop", !.sender = TRUE]
                        ELSE [daemon EXCEPT !.pc = "failed"]
    /\ UNCHANGED <<editor, fx, proc>>

\* A quit call arrives on the bus and goes through the lock.
QuitTake(i) ==
    /\ daemon.pc = "loop"
    /\ daemon.calls[i] = "idle"
    /\ daemon' = quit_take(daemon, i)
    /\ UNCHANGED <<editor, fx, proc>>

\* The call that holds the sender sends on it; the loop may have ended in the
\* meantime.
QuitSend(i) ==
    /\ daemon.calls[i] = "holding"
    /\ daemon' = quit_send(daemon, i)
    /\ UNCHANGED <<editor, fx, proc>>

\* FireshotTray: activate() and the menu's items send on cmd_tx.
TrayClick(cmd) ==
    /\ daemon.pc = "loop"
    /\ daemon.clicks < MaxClicks
    /\ daemon' = [daemon EXCEPT !.queue = Append(@, cmd), !.clicks = @ + 1]
    /\ UNCHANGED <<editor, fx, proc>>

ServeCommand ==
    /\ daemon.pc = "loop"
    /\ daemon.queue # <<>>
    /\ daemon' = serve_command(daemon)
    /\ UNCHANGED <<editor, fx, proc>>

SeeShutdown ==
    /\ daemon.pc = "loop"
    /\ daemon.signal = "sent"
    /\ daemon' = see_shutdown(daemon)
    /\ UNCHANGED <<editor, fx, proc>>

DaemonNext ==
    \/ StartDaemon
    \/ \E i \in 1..MaxQuits : QuitTake(i)
    \/ \E i \in 1..MaxQuits : QuitSend(i)
    \/ \E cmd \in DaemonCommands : TrayClick(cmd)
    \/ ServeCommand
    \/ SeeShutdown

\* The runtime polls the loop whenever one of its branches is ready, a call
\* that holds the sender runs on to its send, and select! picks at random
\* among ready branches, so none of them is passed over for ever.
SpecDaemon ==
    /\ Init
    /\ [][DaemonNext]_vars
    /\ WF_vars(ServeCommand)
    /\ WF_vars(SeeShutdown)
    /\ \A i \in 1..MaxQuits : WF_vars(QuitSend(i))

QuitQueued == \E k \in 1..Len(daemon.queue) : daemon.queue[k] = "Quit"

\* C36: however many quit calls arrive and however they overlap, the shutdown
\* signal is sent at most once; the loop ends only on that signal or on the
\* tray's Quit; while neither has come, a command waiting in the queue is
\* served; and once the signal is in the channel or Quit is in the queue the
\* loop terminates.
C36_ShutdownOnce ==
    /\ [](daemon.sends <= 1)
    /\ [](daemon.pc = "done" =>
            \/ daemon.ended_by = "signal" /\ daemon.signal = "sent"
            \/ daemon.ended_by = "Quit")
    /\ [][daemon.pc = "loop" /\ daemon'.pc = "done" =>
            \/ daemon.signal = "sent"
            \/ daemon.queue # <<>> /\ Head(daemon.queue) = "Quit"]_vars
    /\ \A n \in 0..MaxClicks :
        (daemon.pc = "loop" /\ daemon.queue # <<>> /\ daemon.spawned = n)
            ~> (daemon.spawned > n \/ daemon.pc = "done")
    /\ (daemon.pc = "loop" /\ (daemon.signal = "sent" \/ QuitQueued))
            ~> (daemon.pc = "done")

\* Three quit calls have all returned, one of them having sent the signal, and
\* the loop has ended on it after serving a command of the tray.
C36_Witness ==
    /\ daemon.pc = "done"
    /\ daemon.ended_by = "signal"
    /\ daemon.sends = 1
    /\ daemon.spawned >= 1
    /\ \A i \in 1..MaxQuits : daemon.calls[i] = "returned"

----------------------------------------------------------------------------
(* The slots of effect_previews against the effects of the frame.          *)

\* The Effect shapes in draw order: the committed ones, then the active one.
EffectsInDrawOrder ==
    SelectShapes(IF IsSome(active_shape)
                 THEN Append(shapes, Unwrap(active_shape)) ELSE shapes, TRUE)

\* Slot i holds what ensure_effect_preview computes for `effect`.
SlotComputedFor(slot, effect) ==
    /\ Some(slot.rect) = KeyOf(effect)
    /\ slot.kind = effect.effect
    /\ slot.size = size_param(effect)
    /\ slot.texture = Texture(render_full_image_without_effects(Self),
                              slot.rect, effect)

\* C37 (as stated): there are never more preview slots than Effect shapes,
\* and the slot at index i was computed for the i-th Effect shape in draw
\* order, also when an earlier effect has an empty pixel rectangle: the
\* slot's texture was loaded for index i, and it holds the preview of that
\* effect whenever the effect yields one.
C37_PreviewSlotsPositional ==
    /\ Len(effect_previews) <= Len(EffectsInDrawOrder)
    /\ \A i \in 1..Len(effect_previews) :
        /\ effect_previews[i].name = i - 1
        /\ i <= Len(EffectsInDrawOrder)
                /\ IsSome(KeyOf(EffectsInDrawOrder[i])) =>
            SlotComputedFor(effect_previews[i], EffectsInDrawOrder[i])

====
